---- MODULE Spec2Model ----
(***************************************************************************)
(* The OMML -> LaTeX math transpiler of docx2latex                          *)
(* (infrastructure/converters/math: symbols.py, omml_parser.py).            *)
(*                                                                         *)
(* A Python string is a sequence of characters; a character is a          *)
(* one-character TLA+ string, and a non-ASCII character is written by its   *)
(* code point ("U+2208" is the element-of sign).  Every operator below is   *)
(* computed the way the Python code computes it: loops are recursions over  *)
(* the loop index that carry the loop's local variables.                    *)
(***************************************************************************)
EXTENDS Integers, Sequences, FiniteSets, TLC

VARIABLES op, input, output
vars == <<op, input, output>>

(***************************************************************************)
(* Python built-ins on strings                                             *)
(***************************************************************************)
\* str.isalpha() of one character, for the ASCII characters and every
\* character the symbol tables name.
AlphaChars ==
    {
      "A", "B", "C", "D", "E", "F", "G", "H", "I", "J",
      "K", "L", "M", "N", "O", "P", "Q", "R", "S", "T",
      "U", "V", "W", "X", "Y", "Z", "a", "b", "c", "d",
      "e", "f", "g", "h", "i", "j", "k", "l", "m", "n",
      "o", "p", "q", "r", "s", "t", "u", "v", "w", "x",
      "y", "z", "U+0391", "U+0392", "U+0393", "U+0394", "U+0395", "U+0396", "U+0397", "U+0398",
      "U+0399", "U+039A", "U+039B", "U+039C", "U+039D", "U+039E", "U+039F", "U+03A0", "U+03A1", "U+03A3",
      "U+03A4", "U+03A5", "U+03A6", "U+03A7", "U+03A8", "U+03A9", "U+03B1", "U+03B2", "U+03B3", "U+03B4",
      "U+03B5", "U+03B6", "U+03B7", "U+03B8", "U+03B9", "U+03BA", "U+03BB", "U+03BC", "U+03BD", "U+03BE",
      "U+03C0", "U+03C1", "U+03C2", "U+03C3", "U+03C4", "U+03C5", "U+03C6", "U+03C7", "U+03C8", "U+03C9",
      "U+03D1", "U+03D5", "U+03D6", "U+03F0", "U+03F1", "U+03F5", "U+2071", "U+207F", "U+210F", "U+2111",
      "U+2113", "U+211C", "U+2135" }
isalpha(c) == c \in AlphaChars

\* str.isspace() of one character (str.split / str.strip without arguments).
isspace(c) == c \in {" ", "\t", "\n"}

\* str.lower() of one character.
LowerMap ==
       ("A" :> "a")
    @@ ("B" :> "b")
    @@ ("C" :> "c")
    @@ ("D" :> "d")
    @@ ("E" :> "e")
    @@ ("F" :> "f")
    @@ ("G" :> "g")
    @@ ("H" :> "h")
    @@ ("I" :> "i")
    @@ ("J" :> "j")
    @@ ("K" :> "k")
    @@ ("L" :> "l")
    @@ ("M" :> "m")
    @@ ("N" :> "n")
    @@ ("O" :> "o")
    @@ ("P" :> "p")
    @@ ("Q" :> "q")
    @@ ("R" :> "r")
    @@ ("S" :> "s")
    @@ ("T" :> "t")
    @@ ("U" :> "u")
    @@ ("V" :> "v")
    @@ ("W" :> "w")
    @@ ("X" :> "x")
    @@ ("Y" :> "y")
    @@ ("Z" :> "z")
    @@ ("U+0391" :> "U+03B1")
    @@ ("U+0392" :> "U+03B2")
    @@ ("U+0393" :> "U+03B3")
    @@ ("U+0394" :> "U+03B4")
    @@ ("U+0395" :> "U+03B5")
    @@ ("U+0396" :> "U+03B6")
    @@ ("U+0397" :> "U+03B7")
    @@ ("U+0398" :> "U+03B8")
    @@ ("U+0399" :> "U+03B9")
    @@ ("U+039A" :> "U+03BA")
    @@ ("U+039B" :> "U+03BB")
    @@ ("U+039C" :> "U+03BC")
    @@ ("U+039D" :> "U+03BD")
    @@ ("U+039E" :> "U+03BE")
    @@ ("U+039F" :> "U+03BF")
    @@ ("U+03A0" :> "U+03C0")
    @@ ("U+03A1" :> "U+03C1")
    @@ ("U+03A3" :> "U+03C3")
    @@ ("U+03A4" :> "U+03C4")
    @@ ("U+03A5" :> "U+03C5")
    @@ ("U+03A6" :> "U+03C6")
    @@ ("U+03A7" :> "U+03C7")
    @@ ("U+03A8" :> "U+03C8")
    @@ ("U+03A9" :> "U+03C9")

lower_char(c) == IF c \in DOMAIN LowerMap THEN LowerMap[c] ELSE c

\* str.lower()
lower(s) == [i \in 1..Len(s) |-> lower_char(s[i])]

\* s.startswith("\\")
startswith_backslash(s) == Len(s) > 0 /\ s[1] = "\\"

\* s.rfind(c): the 0-based index of the last c in s, -1 when there is none.
rfind(s, c) ==
    IF \E k \in 1..Len(s) : s[k] = c
    THEN (CHOOSE k \in 1..Len(s) : s[k] = c /\ \A j \in (k + 1)..Len(s) : s[j] # c) - 1
    ELSE -1

\* s[start:], start a 0-based index
slice_from(s, start) == SubSeq(s, start + 1, Len(s))

\* "".join(parts)
RECURSIVE join(_)
join(parts) == IF parts = <<>> THEN <<>> ELSE Head(parts) \o join(Tail(parts))

\* sep.join(parts)
RECURSIVE sep_join(_, _)
sep_join(sep, parts) ==
    IF parts = <<>> THEN <<>>
    ELSE IF Len(parts) = 1 THEN parts[1]
    ELSE parts[1] \o sep \o sep_join(sep, Tail(parts))

(***************************************************************************)
(* symbols.py: the symbol tables                                           *)
(***************************************************************************)
GREEK_LOWER ==
       ("U+03B1" :> <<"\\", "a", "l", "p", "h", "a">>)
    @@ ("U+03B2" :> <<"\\", "b", "e", "t", "a">>)
    @@ ("U+03B3" :> <<"\\", "g", "a", "m", "m", "a">>)
    @@ ("U+03B4" :> <<"\\", "d", "e", "l", "t", "a">>)
    @@ ("U+03B5" :> <<"\\", "v", "a", "r", "e", "p", "s", "i", "l", "o", "n">>)
    @@ ("U+03F5" :> <<"\\", "e", "p", "s", "i", "l", "o", "n">>)
    @@ ("U+03B6" :> <<"\\", "z", "e", "t", "a">>)
    @@ ("U+03B7" :> <<"\\", "e", "t", "a">>)
    @@ ("U+03B8" :> <<"\\", "t", "h", "e", "t", "a">>)
    @@ ("U+03D1" :> <<"\\", "v", "a", "r", "t", "h", "e", "t", "a">>)
    @@ ("U+03B9" :> <<"\\", "i", "o", "t", "a">>)
    @@ ("U+03BA" :> <<"\\", "k", "a", "p", "p", "a">>)
    @@ ("U+03F0" :> <<"\\", "v", "a", "r", "k", "a", "p", "p", "a">>)
    @@ ("U+03BB" :> <<"\\", "l", "a", "m", "b", "d", "a">>)
    @@ ("U+03BC" :> <<"\\", "m", "u">>)
    @@ ("U+03BD" :> <<"\\", "n", "u">>)
    @@ ("U+03BE" :> <<"\\", "x", "i">>)
    @@ ("U+03C0" :> <<"\\", "p", "i">>)
    @@ ("U+03D6" :> <<"\\", "v", "a", "r", "p", "i">>)
    @@ ("U+03C1" :> <<"\\", "r", "h", "o">>)
    @@ ("U+03F1" :> <<"\\", "v", "a", "r", "r", "h", "o">>)
    @@ ("U+03C3" :> <<"\\", "s", "i", "g", "m", "a">>)
    @@ ("U+03C2" :> <<"\\", "v", "a", "r", "s", "i", "g", "m", "a">>)
    @@ ("U+03C4" :> <<"\\", "t", "a", "u">>)
    @@ ("U+03C5" :> <<"\\", "u", "p", "s", "i", "l", "o", "n">>)
    @@ ("U+03C6" :> <<"\\", "v", "a", "r", "p", "h", "i">>)
    @@ ("U+03D5" :> <<"\\", "p", "h", "i">>)
    @@ ("U+03C7" :> <<"\\", "c", "h", "i">>)
    @@ ("U+03C8" :> <<"\\", "p", "s", "i">>)
    @@ ("U+03C9" :> <<"\\", "o", "m", "e", "g", "a">>)

GREEK_UPPER ==
       ("U+0391" :> <<"A">>)
    @@ ("U+0392" :> <<"B">>)
    @@ ("U+0393" :> <<"\\", "G", "a", "m", "m", "a">>)
    @@ ("U+0394" :> <<"\\", "D", "e", "l", "t", "a">>)
    @@ ("U+0395" :> <<"E">>)
    @@ ("U+0396" :> <<"Z">>)
    @@ ("U+0397" :> <<"H">>)
    @@ ("U+0398" :> <<"\\", "T", "h", "e", "t", "a">>)
    @@ ("U+0399" :> <<"I">>)
    @@ ("U+039A" :> <<"K">>)
    @@ ("U+039B" :> <<"\\", "L", "a", "m", "b", "d", "a">>)
    @@ ("U+039C" :> <<"M">>)
    @@ ("U+039D" :> <<"N">>)
    @@ ("U+039E" :> <<"\\", "X", "i">>)
    @@ ("U+039F" :> <<"O">>)
    @@ ("U+03A0" :> <<"\\", "P", "i">>)
    @@ ("U+03A1" :> <<"P">>)
    @@ ("U+03A3" :> <<"\\", "S", "i", "g", "m", "a">>)
    @@ ("U+03A4" :> <<"T">>)
    @@ ("U+03A5" :> <<"\\", "U", "p", "s", "i", "l", "o", "n">>)
    @@ ("U+03A6" :> <<"\\", "P", "h", "i">>)
    @@ ("U+03A7" :> <<"X">>)
    @@ ("U+03A8" :> <<"\\", "P", "s", "i">>)
    @@ ("U+03A9" :> <<"\\", "O", "m", "e", "g", "a">>)

OPERATORS ==
       ("%" :> <<"\\", "%">>)
    @@ ("#" :> <<"\\", "#">>)
    @@ ("&" :> <<"\\", "&">>)
    @@ ("$" :> <<"\\", "$">>)
    @@ ("_" :> <<"\\", "_">>)
    @@ ("U+2212" :> <<"-">>)
    @@ ("U+00D7" :> <<"\\", "t", "i", "m", "e", "s">>)
    @@ ("U+00F7" :> <<"\\", "d", "i", "v">>)
    @@ ("U+00B1" :> <<"\\", "p", "m">>)
    @@ ("U+2213" :> <<"\\", "m", "p">>)
    @@ ("U+00B7" :> <<"\\", "c", "d", "o", "t">>)
    @@ ("U+2217" :> <<"\\", "a", "s", "t">>)
    @@ ("U+22C6" :> <<"\\", "s", "t", "a", "r">>)
    @@ ("U+2218" :> <<"\\", "c", "i", "r", "c">>)
    @@ ("U+2022" :> <<"\\", "b", "u", "l", "l", "e", "t">>)
    @@ ("U+2260" :> <<"\\", "n", "e", "q">>)
    @@ ("U+2264" :> <<"\\", "l", "e", "q">>)
    @@ ("U+2265" :> <<"\\", "g", "e", "q">>)
    @@ ("U+226A" :> <<"\\", "l", "l">>)
    @@ ("U+226B" :> <<"\\", "g", "g">>)
    @@ ("U+2248" :> <<"\\", "a", "p", "p", "r", "o", "x">>)
    @@ ("U+2243" :> <<"\\", "s", "i", "m", "e", "q">>)
    @@ ("U+2245" :> <<"\\", "c", "o", "n", "g">>)
    @@ ("U+2261" :> <<"\\", "e", "q", "u", "i", "v">>)
    @@ ("U+223C" :> <<"\\", "s", "i", "m">>)
    @@ ("U+221D" :> <<"\\", "p", "r", "o", "p", "t", "o">>)
    @@ ("U+227A" :> <<"\\", "p", "r", "e", "c">>)
    @@ ("U+227B" :> <<"\\", "s", "u", "c", "c">>)
    @@ ("U+2AAF" :> <<"\\", "p", "r", "e", "c", "e", "q">>)
    @@ ("U+2AB0" :> <<"\\", "s", "u", "c", "c", "e", "q">>)
    @@ ("U+2192" :> <<"\\", "r", "i", "g", "h", "t", "a", "r", "r", "o", "w">>)
    @@ ("U+2190" :> <<"\\", "l", "e", "f", "t", "a", "r", "r", "o", "w">>)
    @@ ("U+2194" :> <<"\\", "l", "e", "f", "t", "r", "i", "g", "h", "t", "a", "r", "r", "o", "w">>)
    @@ ("U+21D2" :> <<"\\", "R", "i", "g", "h", "t", "a", "r", "r", "o", "w">>)
    @@ ("U+21D0" :> <<"\\", "L", "e", "f", "t", "a", "r", "r", "o", "w">>)
    @@ ("U+21D4" :> <<"\\", "L", "e", "f", "t", "r", "i", "g", "h", "t", "a", "r", "r", "o", "w">>)
    @@ ("U+21A6" :> <<"\\", "m", "a", "p", "s", "t", "o">>)
    @@ ("U+2191" :> <<"\\", "u", "p", "a", "r", "r", "o", "w">>)
    @@ ("U+2193" :> <<"\\", "d", "o", "w", "n", "a", "r", "r", "o", "w">>)
    @@ ("U+21D1" :> <<"\\", "U", "p", "a", "r", "r", "o", "w">>)
    @@ ("U+21D3" :> <<"\\", "D", "o", "w", "n", "a", "r", "r", "o", "w">>)
    @@ ("U+2197" :> <<"\\", "n", "e", "a", "r", "r", "o", "w">>)
    @@ ("U+2198" :> <<"\\", "s", "e", "a", "r", "r", "o", "w">>)
    @@ ("U+2199" :> <<"\\", "s", "w", "a", "r", "r", "o", "w">>)
    @@ ("U+2196" :> <<"\\", "n", "w", "a", "r", "r", "o", "w">>)
    @@ ("U+27F5" :> <<"\\", "l", "o", "n", "g", "l", "e", "f", "t", "a", "r", "r", "o", "w">>)
    @@ ("U+27F6" :> <<"\\", "l", "o", "n", "g", "r", "i", "g", "h", "t", "a", "r", "r", "o", "w">>)
    @@ ("U+27F7" :> <<"\\", "l", "o", "n", "g", "l", "e", "f", "t", "r", "i", "g", "h", "t", "a", "r", "r", "o", "w">>)
    @@ ("U+27F9" :> <<"\\", "L", "o", "n", "g", "r", "i", "g", "h", "t", "a", "r", "r", "o", "w">>)
    @@ ("U+27F8" :> <<"\\", "L", "o", "n", "g", "l", "e", "f", "t", "a", "r", "r", "o", "w">>)
    @@ ("U+27FA" :> <<"\\", "L", "o", "n", "g", "l", "e", "f", "t", "r", "i", "g", "h", "t", "a", "r", "r", "o", "w">>)
    @@ ("U+2208" :> <<"\\", "i", "n">>)
    @@ ("U+2209" :> <<"\\", "n", "o", "t", "i", "n">>)
    @@ ("U+220B" :> <<"\\", "n", "i">>)
    @@ ("U+2282" :> <<"\\", "s", "u", "b", "s", "e", "t">>)
    @@ ("U+2283" :> <<"\\", "s", "u", "p", "s", "e", "t">>)
    @@ ("U+2286" :> <<"\\", "s", "u", "b", "s", "e", "t", "e", "q">>)
    @@ ("U+2287" :> <<"\\", "s", "u", "p", "s", "e", "t", "e", "q">>)
    @@ ("U+228A" :> <<"\\", "s", "u", "b", "s", "e", "t", "n", "e", "q">>)
    @@ ("U+228B" :> <<"\\", "s", "u", "p", "s", "e", "t", "n", "e", "q">>)
    @@ ("U+222A" :> <<"\\", "c", "u", "p">>)
    @@ ("U+2229" :> <<"\\", "c", "a", "p">>)
    @@ ("U+2205" :> <<"\\", "e", "m", "p", "t", "y", "s", "e", "t">>)
    @@ ("U+2295" :> <<"\\", "o", "p", "l", "u", "s">>)
    @@ ("U+2297" :> <<"\\", "o", "t", "i", "m", "e", "s">>)
    @@ ("U+2296" :> <<"\\", "o", "m", "i", "n", "u", "s">>)
    @@ ("U+2298" :> <<"\\", "o", "s", "l", "a", "s", "h">>)
    @@ ("U+2227" :> <<"\\", "l", "a", "n", "d">>)
    @@ ("U+2228" :> <<"\\", "l", "o", "r">>)
    @@ ("U+00AC" :> <<"\\", "n", "e", "g">>)
    @@ ("U+2200" :> <<"\\", "f", "o", "r", "a", "l", "l">>)
    @@ ("U+2203" :> <<"\\", "e", "x", "i", "s", "t", "s">>)
    @@ ("U+2204" :> <<"\\", "n", "e", "x", "i", "s", "t", "s">>)
    @@ ("U+22A2" :> <<"\\", "v", "d", "a", "s", "h">>)
    @@ ("U+22A3" :> <<"\\", "d", "a", "s", "h", "v">>)
    @@ ("U+22A4" :> <<"\\", "t", "o", "p">>)
    @@ ("U+22A5" :> <<"\\", "p", "e", "r", "p">>)
    @@ ("U+22A8" :> <<"\\", "m", "o", "d", "e", "l", "s">>)
    @@ ("U+2202" :> <<"\\", "p", "a", "r", "t", "i", "a", "l">>)
    @@ ("U+221E" :> <<"\\", "i", "n", "f", "t", "y">>)
    @@ ("U+2207" :> <<"\\", "n", "a", "b", "l", "a">>)
    @@ ("U+221A" :> <<"\\", "s", "q", "r", "t">>)
    @@ ("U+222B" :> <<"\\", "i", "n", "t">>)
    @@ ("U+222C" :> <<"\\", "i", "i", "n", "t">>)
    @@ ("U+222D" :> <<"\\", "i", "i", "i", "n", "t">>)
    @@ ("U+222E" :> <<"\\", "o", "i", "n", "t">>)
    @@ ("U+2211" :> <<"\\", "s", "u", "m">>)
    @@ ("U+220F" :> <<"\\", "p", "r", "o", "d">>)
    @@ ("U+2210" :> <<"\\", "c", "o", "p", "r", "o", "d">>)
    @@ ("U+00B0" :> <<"^", "{", "\\", "c", "i", "r", "c", "}">>)
    @@ ("U+2032" :> <<"'">>)
    @@ ("U+2033" :> <<"'", "'">>)
    @@ ("U+2034" :> <<"'", "'", "'">>)
    @@ ("U+2113" :> <<"\\", "e", "l", "l">>)
    @@ ("U+210F" :> <<"\\", "h", "b", "a", "r">>)
    @@ ("U+211C" :> <<"\\", "R", "e">>)
    @@ ("U+2111" :> <<"\\", "I", "m">>)
    @@ ("U+2118" :> <<"\\", "w", "p">>)
    @@ ("U+2135" :> <<"\\", "a", "l", "e", "p", "h">>)
    @@ ("U+2220" :> <<"\\", "a", "n", "g", "l", "e">>)
    @@ ("U+2221" :> <<"\\", "m", "e", "a", "s", "u", "r", "e", "d", "a", "n", "g", "l", "e">>)
    @@ ("U+2225" :> <<"\\", "p", "a", "r", "a", "l", "l", "e", "l">>)
    @@ ("U+22EE" :> <<"\\", "v", "d", "o", "t", "s">>)
    @@ ("U+22EF" :> <<"\\", "c", "d", "o", "t", "s">>)
    @@ ("U+22F1" :> <<"\\", "d", "d", "o", "t", "s">>)
    @@ ("U+2026" :> <<"\\", "l", "d", "o", "t", "s">>)
    @@ ("U+25A1" :> <<"\\", "s", "q", "u", "a", "r", "e">>)
    @@ ("U+25B3" :> <<"\\", "t", "r", "i", "a", "n", "g", "l", "e">>)
    @@ ("U+25BD" :> <<"\\", "t", "r", "i", "a", "n", "g", "l", "e", "d", "o", "w", "n">>)
    @@ ("U+2605" :> <<"\\", "b", "i", "g", "s", "t", "a", "r">>)
    @@ ("U+2660" :> <<"\\", "s", "p", "a", "d", "e", "s", "u", "i", "t">>)
    @@ ("U+2665" :> <<"\\", "h", "e", "a", "r", "t", "s", "u", "i", "t">>)
    @@ ("U+2666" :> <<"\\", "d", "i", "a", "m", "o", "n", "d", "s", "u", "i", "t">>)
    @@ ("U+2663" :> <<"\\", "c", "l", "u", "b", "s", "u", "i", "t">>)

SUPERSCRIPTS ==
       ("U+2070" :> <<"^", "{", "0", "}">>)
    @@ ("U+00B9" :> <<"^", "{", "1", "}">>)
    @@ ("U+00B2" :> <<"^", "{", "2", "}">>)
    @@ ("U+00B3" :> <<"^", "{", "3", "}">>)
    @@ ("U+2074" :> <<"^", "{", "4", "}">>)
    @@ ("U+2075" :> <<"^", "{", "5", "}">>)
    @@ ("U+2076" :> <<"^", "{", "6", "}">>)
    @@ ("U+2077" :> <<"^", "{", "7", "}">>)
    @@ ("U+2078" :> <<"^", "{", "8", "}">>)
    @@ ("U+2079" :> <<"^", "{", "9", "}">>)
    @@ ("U+207A" :> <<"^", "{", "+", "}">>)
    @@ ("U+207B" :> <<"^", "{", "-", "}">>)
    @@ ("U+207C" :> <<"^", "{", "=", "}">>)
    @@ ("U+207D" :> <<"^", "{", "(", "}">>)
    @@ ("U+207E" :> <<"^", "{", ")", "}">>)
    @@ ("U+207F" :> <<"^", "{", "n", "}">>)
    @@ ("U+2071" :> <<"^", "{", "i", "}">>)

SUBSCRIPTS ==
       ("U+2080" :> <<"_", "{", "0", "}">>)
    @@ ("U+2081" :> <<"_", "{", "1", "}">>)
    @@ ("U+2082" :> <<"_", "{", "2", "}">>)
    @@ ("U+2083" :> <<"_", "{", "3", "}">>)
    @@ ("U+2084" :> <<"_", "{", "4", "}">>)
    @@ ("U+2085" :> <<"_", "{", "5", "}">>)
    @@ ("U+2086" :> <<"_", "{", "6", "}">>)
    @@ ("U+2087" :> <<"_", "{", "7", "}">>)
    @@ ("U+2088" :> <<"_", "{", "8", "}">>)
    @@ ("U+2089" :> <<"_", "{", "9", "}">>)
    @@ ("U+208A" :> <<"_", "{", "+", "}">>)
    @@ ("U+208B" :> <<"_", "{", "-", "}">>)
    @@ ("U+208C" :> <<"_", "{", "=", "}">>)
    @@ ("U+208D" :> <<"_", "{", "(", "}">>)
    @@ ("U+208E" :> <<"_", "{", ")", "}">>)

NARY_OPERATORS ==
       ("U+2211" :> <<"\\", "s", "u", "m">>)
    @@ ("U+220F" :> <<"\\", "p", "r", "o", "d">>)
    @@ ("U+2210" :> <<"\\", "c", "o", "p", "r", "o", "d">>)
    @@ ("U+222B" :> <<"\\", "i", "n", "t">>)
    @@ ("U+222C" :> <<"\\", "i", "i", "n", "t">>)
    @@ ("U+222D" :> <<"\\", "i", "i", "i", "n", "t">>)
    @@ ("U+222E" :> <<"\\", "o", "i", "n", "t">>)
    @@ ("U+22C0" :> <<"\\", "b", "i", "g", "w", "e", "d", "g", "e">>)
    @@ ("U+22C1" :> <<"\\", "b", "i", "g", "v", "e", "e">>)
    @@ ("U+22C2" :> <<"\\", "b", "i", "g", "c", "a", "p">>)
    @@ ("U+22C3" :> <<"\\", "b", "i", "g", "c", "u", "p">>)
    @@ ("U+2A01" :> <<"\\", "b", "i", "g", "o", "p", "l", "u", "s">>)
    @@ ("U+2A02" :> <<"\\", "b", "i", "g", "o", "t", "i", "m", "e", "s">>)
    @@ ("U+2A00" :> <<"\\", "b", "i", "g", "o", "d", "o", "t">>)
    @@ ("U+2A04" :> <<"\\", "b", "i", "g", "u", "p", "l", "u", "s">>)
    @@ ("U+2A06" :> <<"\\", "b", "i", "g", "s", "q", "c", "u", "p">>)

FUNCTION_NAMES ==
    { <<"P", "r">>,
      <<"a", "c", "o", "s">>,
      <<"a", "c", "o", "t">>,
      <<"a", "r", "c", "c", "o", "s">>,
      <<"a", "r", "c", "c", "o", "t">>,
      <<"a", "r", "c", "s", "i", "n">>,
      <<"a", "r", "c", "t", "a", "n">>,
      <<"a", "r", "g">>,
      <<"a", "s", "i", "n">>,
      <<"a", "t", "a", "n">>,
      <<"c", "o", "s">>,
      <<"c", "o", "s", "h">>,
      <<"c", "o", "t">>,
      <<"c", "o", "t", "h">>,
      <<"c", "s", "c">>,
      <<"c", "s", "c", "h">>,
      <<"d", "e", "g">>,
      <<"d", "e", "t">>,
      <<"d", "i", "m">>,
      <<"e", "x", "p">>,
      <<"g", "c", "d">>,
      <<"h", "o", "m">>,
      <<"i", "n", "f">>,
      <<"k", "e", "r">>,
      <<"l", "g">>,
      <<"l", "i", "m">>,
      <<"l", "i", "m", "i", "n", "f">>,
      <<"l", "i", "m", "s", "u", "p">>,
      <<"l", "n">>,
      <<"l", "o", "g">>,
      <<"m", "a", "x">>,
      <<"m", "i", "n">>,
      <<"m", "o", "d">>,
      <<"s", "e", "c">>,
      <<"s", "e", "c", "h">>,
      <<"s", "i", "n">>,
      <<"s", "i", "n", "h">>,
      <<"s", "u", "p">>,
      <<"t", "a", "n">>,
      <<"t", "a", "n", "h">> }

\* SymbolMapper.INVISIBLE_CHARS
INVISIBLE_CHARS == {"U+200B", "U+200C", "U+200D", "U+2060", "U+FEFF"}

\* SymbolMapper.__init__: self._map, the five tables merged by dict.update in
\* order (a later table would win on a shared key; f @@ g lets f win).
symbol_map == SUBSCRIPTS @@ SUPERSCRIPTS @@ OPERATORS @@ GREEK_UPPER @@ GREEK_LOWER

\* map_char with the backslash escaped as well: a table that also rewrites the
\* character every command token starts with.
map_char_escaping_backslash(char) ==
    IF char \in INVISIBLE_CHARS THEN <<>>
    ELSE IF char = "\\" THEN <<"\\", "b", "a", "c", "k", "s", "l", "a", "s", "h">>
    ELSE IF char \in DOMAIN symbol_map THEN symbol_map[char] ELSE <<char>>

\* map_char without the test for invisible characters.
map_char_keeps_invisible(char) ==
    IF char \in DOMAIN symbol_map THEN symbol_map[char] ELSE <<char>>

\* SymbolMapper.map_char
map_char(char) ==
    IF char \in INVISIBLE_CHARS THEN <<>>
    ELSE IF char \in DOMAIN symbol_map THEN symbol_map[char] ELSE <<char>>

\* map_text with no space inserted after a command: the mapped characters
\* concatenated.
map_text_no_space(text) == join([i \in 1..Len(text) |-> map_char(text[i])])

\* SymbolMapper.map_text: the loop over enumerate(text), result the list built
\* so far; i is the 1-based position of char.
RECURSIVE map_text_loop(_, _, _)
map_text_loop(text, i, result) ==
    IF i > Len(text) THEN result
    ELSE LET mapped == map_char(text[i])
             result1 == Append(result, mapped)
         IN  IF /\ startswith_backslash(mapped)
                /\ isalpha(mapped[Len(mapped)])
                /\ i + 1 <= Len(text)
                /\ isalpha(text[i + 1])
             THEN map_text_loop(text, i + 1, Append(result1, <<" ">>))
             ELSE map_text_loop(text, i + 1, result1)

map_text(text) == join(map_text_loop(text, 1, <<>>))

\* SymbolMapper.is_function_name
is_function_name(name) == lower(name) \in FUNCTION_NAMES

\* get_function_latex: the set `standard` of names with a built-in command
standard ==
    { <<"s", "i", "n">>, <<"c", "o", "s">>, <<"t", "a", "n">>, <<"c", "o", "t">>, <<"s", "e", "c">>, <<"c", "s", "c">>,
      <<"s", "i", "n", "h">>, <<"c", "o", "s", "h">>, <<"t", "a", "n", "h">>, <<"c", "o", "t", "h">>,
      <<"a", "r", "c", "s", "i", "n">>, <<"a", "r", "c", "c", "o", "s">>, <<"a", "r", "c", "t", "a", "n">>,
      <<"e", "x", "p">>, <<"l", "o", "g">>, <<"l", "n">>, <<"l", "g">>,
      <<"l", "i", "m">>, <<"l", "i", "m", "i", "n", "f">>, <<"l", "i", "m", "s", "u", "p">>,
      <<"m", "a", "x">>, <<"m", "i", "n">>, <<"s", "u", "p">>, <<"i", "n", "f">>,
      <<"a", "r", "g">>, <<"d", "e", "t">>, <<"d", "i", "m">>, <<"g", "c", "d">>, <<"h", "o", "m">>, <<"k", "e", "r">>, <<"d", "e", "g">>, <<"P", "r">> }

\* SymbolMapper.get_function_latex
get_function_latex(name) ==
    LET lower_name == lower(name)
    IN  IF lower_name \in FUNCTION_NAMES
        THEN IF lower_name \in standard
             THEN <<"\\">> \o lower_name
             ELSE <<"\\", "o", "p", "e", "r", "a", "t", "o", "r", "n", "a", "m", "e", "{">> \o name \o <<"}">>
        ELSE <<"\\", "o", "p", "e", "r", "a", "t", "o", "r", "n", "a", "m", "e", "{">> \o name \o <<"}">>

\* SymbolMapper.get_nary_latex: NARY_OPERATORS.get(char, char), char a string (the
\* keys of the table are one character long)
get_nary_latex(char) ==
    IF Len(char) = 1 /\ char[1] \in DOMAIN NARY_OPERATORS
    THEN NARY_OPERATORS[char[1]]
    ELSE char

(***************************************************************************)
(* omml_parser.py: the Spacing Policy and the Style Applicator             *)
(***************************************************************************)
\* any(c in after_backslash for c in "{}[]")
has_brace_or_bracket(s) == \E k \in 1..Len(s) : s[k] \in {"{", "}", "[", "]"}

\* The body of the loop of _join_with_spacing without the test for a brace or
\* bracket after the command.
needs_space_no_brace_test(prev, curr) ==
    /\ prev # <<>> /\ curr # <<>>
    /\ LET last_backslash == rfind(prev, "\\")
       IN  /\ last_backslash >= 0
           /\ LET after_backslash == slice_from(prev, last_backslash + 1)
              IN  /\ after_backslash # <<>>
                  /\ isalpha(after_backslash[Len(after_backslash)])
                  /\ isalpha(curr[1])

\* _join_with_spacing, the body of the loop: needs_space for prev = parts[i-1]
\* and curr = parts[i].
needs_space(prev, curr) ==
    /\ prev # <<>> /\ curr # <<>>
    /\ LET last_backslash == rfind(prev, "\\")
       IN  /\ last_backslash >= 0
           /\ LET after_backslash == slice_from(prev, last_backslash + 1)
              IN  /\ after_backslash # <<>>
                  /\ isalpha(after_backslash[Len(after_backslash)])
                  /\ ~has_brace_or_bracket(after_backslash)
                  /\ isalpha(curr[1])

\* _join_with_spacing, the loop for i in range(1, len(parts)); i is the 1-based
\* position of curr and result the list built so far.
RECURSIVE join_with_spacing_loop(_, _, _)
join_with_spacing_loop(parts, i, result) ==
    IF i > Len(parts) THEN result
    ELSE LET prev == parts[i - 1]
             curr == parts[i]
         IN  IF needs_space(prev, curr)
             THEN join_with_spacing_loop(parts, i + 1, result \o << <<" ">>, curr >>)
             ELSE join_with_spacing_loop(parts, i + 1, Append(result, curr))

\* OmmlParser._join_with_spacing
join_with_spacing(parts) ==
    IF parts = <<>> THEN <<>>
    ELSE join(join_with_spacing_loop(parts, 2, <<parts[1]>>))

\* flush_letters without the test for an empty buffer.
flush_letters_always(result, letter_buffer, prefix, suffix) ==
    Append(result, prefix \o letter_buffer \o suffix)

\* _apply_style_smartly.flush_letters: the result list after the flush (the
\* caller clears letter_buffer).
flush_letters(result, letter_buffer, prefix, suffix) ==
    IF letter_buffer # <<>>
    THEN Append(result, prefix \o letter_buffer \o suffix)
    ELSE result

\* _apply_style_smartly, the loop for char in text followed by the final flush;
\* returns the list `result`.
RECURSIVE apply_style_loop(_, _, _, _, _, _)
apply_style_loop(text, i, result, letter_buffer, prefix, suffix) ==
    IF i > Len(text) THEN flush_letters(result, letter_buffer, prefix, suffix)
    ELSE LET char == text[i]
             mapped == map_char(char)
         IN  IF startswith_backslash(mapped) \/ ~isalpha(char)
             THEN apply_style_loop(text, i + 1,
                      Append(flush_letters(result, letter_buffer, prefix, suffix), mapped),
                      <<>>, prefix, suffix)
             ELSE apply_style_loop(text, i + 1, result, Append(letter_buffer, char),
                      prefix, suffix)

\* OmmlParser._apply_style_smartly
apply_style_smartly(text, prefix, suffix) ==
    LET result == apply_style_loop(text, 1, <<>>, <<>>, prefix, suffix)
    IN  IF Len(result) > 1 THEN join_with_spacing(result) ELSE join(result)

(***************************************************************************)
(* omml_parser.py: the element tree                                        *)
(*                                                                         *)
(* An element of the parsed XML is a record: tag is its local name, val    *)
(* holds the m:val attribute (<<>> when the attribute is absent, <<v>>      *)
(* when it is v), text is its text (None and "" are both the empty string:  *)
(* the code reads it as `elem.text or ""` and `if t.text`), kids are its    *)
(* child elements in document order.  Every element is in the m namespace.  *)
(***************************************************************************)
\* Python's None where the code holds an element or None.
None == [tag |-> "None", val |-> <<>>, text |-> <<>>, kids |-> <<>>]

\* elem.get("{m}val", default)
get_val(elem, default) == IF elem.val = <<>> THEN default ELSE elem.val[1]

\* OmmlParser._get_element: the first child with the tag, or None
get_element(parent, tag) ==
    IF \E i \in 1..Len(parent.kids) : parent.kids[i].tag = tag
    THEN parent.kids[CHOOSE i \in 1..Len(parent.kids) :
                         /\ parent.kids[i].tag = tag
                         /\ \A j \in 1..(i - 1) : parent.kids[j].tag # tag]
    ELSE None

\* elem.iter(tag): elem and its descendants in document order, those with the tag
RECURSIVE iter(_, _)
RECURSIVE iter_kids(_, _)
iter(elem, tag) == (IF elem.tag = tag THEN <<elem>> ELSE <<>>) \o iter_kids(elem.kids, tag)
iter_kids(kids, tag) ==
    IF kids = <<>> THEN <<>> ELSE iter(Head(kids), tag) \o iter_kids(Tail(kids), tag)

\* OmmlParser._get_text
get_text(elem) ==
    LET ts == iter(elem, "t") IN join([i \in 1..Len(ts) |-> ts[i].text])

\* str.strip()
RECURSIVE lstrip(_)
lstrip(s) == IF s # <<>> /\ isspace(Head(s)) THEN lstrip(Tail(s)) ELSE s
RECURSIVE rstrip(_)
rstrip(s) ==
    IF s # <<>> /\ isspace(s[Len(s)]) THEN rstrip(SubSeq(s, 1, Len(s) - 1)) ELSE s
strip(s) == rstrip(lstrip(s))

\* s.replace(old, ""), old non-empty
RECURSIVE remove_all(_, _)
remove_all(s, old) ==
    IF Len(s) < Len(old) THEN s
    ELSE IF SubSeq(s, 1, Len(old)) = old
         THEN remove_all(SubSeq(s, Len(old) + 1, Len(s)), old)
         ELSE <<Head(s)>> \o remove_all(Tail(s), old)

\* d.get(key, default) on a dict with string keys
dict_get(d, key, default) == IF key \in DOMAIN d THEN d[key] ELSE default

\* script_map (omml_parser.py line 165)
script_map ==
       (<<"s", "c", "r", "i", "p", "t">> :> <<<<"\\", "m", "a", "t", "h", "c", "a", "l", "{">>, <<"}">>>>)
    @@ (<<"f", "r", "a", "k", "t", "u", "r">> :> <<<<"\\", "m", "a", "t", "h", "f", "r", "a", "k", "{">>, <<"}">>>>)
    @@ (<<"d", "o", "u", "b", "l", "e", "-", "s", "t", "r", "u", "c", "k">> :> <<<<"\\", "m", "a", "t", "h", "b", "b", "{">>, <<"}">>>>)
    @@ (<<"s", "a", "n", "s", "-", "s", "e", "r", "i", "f">> :> <<<<"\\", "m", "a", "t", "h", "s", "f", "{">>, <<"}">>>>)
    @@ (<<"m", "o", "n", "o", "s", "p", "a", "c", "e">> :> <<<<"\\", "m", "a", "t", "h", "t", "t", "{">>, <<"}">>>>)

\* left_map (omml_parser.py line 454)
left_map ==
       (<<"(">> :> <<"(">>)
    @@ (<<"[">> :> <<"[">>)
    @@ (<<"{">> :> <<"\\", "{">>)
    @@ (<<"|">> :> <<"|">>)
    @@ (<<"U+2016">> :> <<"\\", "|">>)
    @@ (<<"U+27E8">> :> <<"\\", "l", "a", "n", "g", "l", "e">>)
    @@ (<<"U+2308">> :> <<"\\", "l", "c", "e", "i", "l">>)
    @@ (<<"U+230A">> :> <<"\\", "l", "f", "l", "o", "o", "r">>)
    @@ (<<>> :> <<>>)

\* right_map (omml_parser.py line 465)
right_map ==
       (<<")">> :> <<")">>)
    @@ (<<"]">> :> <<"]">>)
    @@ (<<"}">> :> <<"\\", "}">>)
    @@ (<<"|">> :> <<"|">>)
    @@ (<<"U+2016">> :> <<"\\", "|">>)
    @@ (<<"U+27E9">> :> <<"\\", "r", "a", "n", "g", "l", "e">>)
    @@ (<<"U+2309">> :> <<"\\", "r", "c", "e", "i", "l">>)
    @@ (<<"U+230B">> :> <<"\\", "r", "f", "l", "o", "o", "r">>)
    @@ (<<>> :> <<>>)

\* accent_map_wide (omml_parser.py line 536)
accent_map_wide ==
       (<<"U+0302">> :> <<"\\", "w", "i", "d", "e", "h", "a", "t">>)
    @@ (<<"U+0303">> :> <<"\\", "w", "i", "d", "e", "t", "i", "l", "d", "e">>)
    @@ (<<"U+0304">> :> <<"\\", "o", "v", "e", "r", "l", "i", "n", "e">>)
    @@ (<<"U+0307">> :> <<"\\", "d", "o", "t">>)
    @@ (<<"U+0308">> :> <<"\\", "d", "d", "o", "t">>)
    @@ (<<"U+20D7">> :> <<"\\", "o", "v", "e", "r", "r", "i", "g", "h", "t", "a", "r", "r", "o", "w">>)
    @@ (<<"U+0306">> :> <<"\\", "b", "r", "e", "v", "e">>)
    @@ (<<"U+030C">> :> <<"\\", "c", "h", "e", "c", "k">>)
    @@ (<<"U+030A">> :> <<"\\", "m", "a", "t", "h", "r", "i", "n", "g">>)
    @@ (<<"U+23DE">> :> <<"\\", "o", "v", "e", "r", "b", "r", "a", "c", "e">>)
    @@ (<<"U+23DF">> :> <<"\\", "u", "n", "d", "e", "r", "b", "r", "a", "c", "e">>)
    @@ (<<"^">> :> <<"\\", "w", "i", "d", "e", "h", "a", "t">>)
    @@ (<<"~">> :> <<"\\", "w", "i", "d", "e", "t", "i", "l", "d", "e">>)
    @@ (<<"U+2192">> :> <<"\\", "o", "v", "e", "r", "r", "i", "g", "h", "t", "a", "r", "r", "o", "w">>)

\* accent_map_narrow (omml_parser.py line 553)
accent_map_narrow ==
       (<<"U+0302">> :> <<"\\", "h", "a", "t">>)
    @@ (<<"U+0303">> :> <<"\\", "t", "i", "l", "d", "e">>)
    @@ (<<"U+0304">> :> <<"\\", "b", "a", "r">>)
    @@ (<<"U+0307">> :> <<"\\", "d", "o", "t">>)
    @@ (<<"U+0308">> :> <<"\\", "d", "d", "o", "t">>)
    @@ (<<"U+20D7">> :> <<"\\", "v", "e", "c">>)
    @@ (<<"U+0306">> :> <<"\\", "b", "r", "e", "v", "e">>)
    @@ (<<"U+030C">> :> <<"\\", "c", "h", "e", "c", "k">>)
    @@ (<<"U+030A">> :> <<"\\", "m", "a", "t", "h", "r", "i", "n", "g">>)
    @@ (<<"U+23DE">> :> <<"\\", "o", "v", "e", "r", "b", "r", "a", "c", "e">>)
    @@ (<<"U+23DF">> :> <<"\\", "u", "n", "d", "e", "r", "b", "r", "a", "c", "e">>)
    @@ (<<"^">> :> <<"\\", "h", "a", "t">>)
    @@ (<<"~">> :> <<"\\", "t", "i", "l", "d", "e">>)
    @@ (<<"U+2192">> :> <<"\\", "v", "e", "c">>)

(***************************************************************************)
(* omml_parser.py: the Node Transpiler                                     *)
(***************************************************************************)
RECURSIVE convert_element(_)
RECURSIVE process_children(_)

\* `self._process_children(x) if x is not None else ""` for x the child `tag`
slot_latex(elem, tag) ==
    LET x == get_element(elem, tag)
    IN  IF x # None THEN process_children(x) ELSE <<>>

\* OmmlParser._handle_omath
handle_omath(elem) == process_children(elem)

\* _handle_run: the style wrapper <<style_prefix, style_suffix>> chosen from rPr
run_style(elem) ==
    LET rpr == get_element(elem, "rPr")
        scr == get_element(rpr, "scr")
        sty == get_element(rpr, "sty")
        scr_val == get_val(scr, <<>>)
        sty_val == get_val(sty, <<>>)
        by_scr == IF rpr # None /\ scr # None /\ scr_val \in DOMAIN script_map
                  THEN script_map[scr_val]
                  ELSE << <<>>, <<>> >>
    IN  IF rpr # None /\ sty # None /\ by_scr[1] = <<>>
        THEN IF sty_val = <<"b">> THEN <<<<"\\", "m", "a", "t", "h", "b", "f", "{">>, <<"}">>>>
             ELSE IF sty_val = <<"i">> THEN <<<<"\\", "m", "a", "t", "h", "i", "t", "{">>, <<"}">>>>
             ELSE IF sty_val = <<"b", "i">> THEN <<<<"\\", "b", "o", "l", "d", "s", "y", "m", "b", "o", "l", "{">>, <<"}">>>>
             ELSE by_scr
        ELSE by_scr

\* OmmlParser._handle_run
handle_run(elem) ==
    LET style_prefix == run_style(elem)[1]
        style_suffix == run_style(elem)[2]
        raw_text == get_text(elem)
    IN  IF is_function_name(raw_text)
        THEN LET text == get_function_latex(raw_text)
             IN  IF style_prefix # <<>>
                 THEN style_prefix \o text \o style_suffix
                 ELSE text
        ELSE IF style_prefix # <<>>
             THEN apply_style_smartly(raw_text, style_prefix, style_suffix)
             ELSE map_text(raw_text)

\* OmmlParser._handle_text
handle_text(elem) == map_text(elem.text)

\* _handle_fraction: frac_type
frac_type(elem) ==
    LET fpr == get_element(elem, "fPr")
        type_elem == get_element(fpr, "type")
    IN  IF fpr # None /\ type_elem # None
        THEN get_val(type_elem, <<"b", "a", "r">>)
        ELSE <<"b", "a", "r">>

\* _handle_fraction returning nothing when an operand slot is missing
handle_fraction_needs_both(elem) ==
    LET num_latex == slot_latex(elem, "num")
        den_latex == slot_latex(elem, "den")
    IN  IF get_element(elem, "num") = None \/ get_element(elem, "den") = None
        THEN <<>>
        ELSE IF frac_type(elem) = <<"n", "o", "B", "a", "r">>
        THEN <<"\\", "b", "i", "n", "o", "m", "{">> \o num_latex \o <<"}", "{">> \o den_latex \o <<"}">>
        ELSE IF frac_type(elem) \in {<<"s", "k", "w">>, <<"l", "i", "n">>}
        THEN <<"{">> \o num_latex \o <<"}", "/", "{">> \o den_latex \o <<"}">>
        ELSE IF Len(num_latex) > 5 \/ Len(den_latex) > 5
        THEN <<"\\", "d", "f", "r", "a", "c", "{">> \o num_latex \o <<"}", "{">> \o den_latex \o <<"}">>
        ELSE <<"\\", "f", "r", "a", "c", "{">> \o num_latex \o <<"}", "{">> \o den_latex \o <<"}">>

\* _handle_fraction with \dfrac chosen from length 5 on
handle_fraction_ge(elem) ==
    LET num_latex == slot_latex(elem, "num")
        den_latex == slot_latex(elem, "den")
    IN  IF frac_type(elem) = <<"n", "o", "B", "a", "r">>
        THEN <<"\\", "b", "i", "n", "o", "m", "{">> \o num_latex \o <<"}", "{">> \o den_latex \o <<"}">>
        ELSE IF frac_type(elem) \in {<<"s", "k", "w">>, <<"l", "i", "n">>}
        THEN <<"{">> \o num_latex \o <<"}", "/", "{">> \o den_latex \o <<"}">>
        ELSE IF Len(num_latex) >= 5 \/ Len(den_latex) >= 5
        THEN <<"\\", "d", "f", "r", "a", "c", "{">> \o num_latex \o <<"}", "{">> \o den_latex \o <<"}">>
        ELSE <<"\\", "f", "r", "a", "c", "{">> \o num_latex \o <<"}", "{">> \o den_latex \o <<"}">>

\* OmmlParser._handle_fraction
handle_fraction(elem) ==
    LET num_latex == slot_latex(elem, "num")
        den_latex == slot_latex(elem, "den")
    IN  IF frac_type(elem) = <<"n", "o", "B", "a", "r">>
        THEN <<"\\", "b", "i", "n", "o", "m", "{">> \o num_latex \o <<"}", "{">> \o den_latex \o <<"}">>
        ELSE IF frac_type(elem) = <<"s", "k", "w">>
        THEN <<"{">> \o num_latex \o <<"}", "/", "{">> \o den_latex \o <<"}">>
        ELSE IF frac_type(elem) = <<"l", "i", "n">>
        THEN <<"{">> \o num_latex \o <<"}", "/", "{">> \o den_latex \o <<"}">>
        ELSE IF Len(num_latex) > 5 \/ Len(den_latex) > 5
        THEN <<"\\", "d", "f", "r", "a", "c", "{">> \o num_latex \o <<"}", "{">> \o den_latex \o <<"}">>
        ELSE <<"\\", "f", "r", "a", "c", "{">> \o num_latex \o <<"}", "{">> \o den_latex \o <<"}">>

\* _handle_radical: deg_hide
deg_hide(elem) ==
    LET radpr == get_element(elem, "radPr")
        deghide == get_element(radpr, "degHide")
    IN  /\ radpr # None
        /\ deghide # None
        /\ get_val(deghide, <<"0">>) = <<"1">>

\* _handle_radical with the degree-hidden flag ignored
handle_radical_ignores_hide(elem) ==
    LET deg == get_element(elem, "deg")
        base_latex == slot_latex(elem, "e")
        deg_latex == process_children(deg)
    IN  IF deg # None /\ deg_latex # <<>> /\ strip(deg_latex) # <<>>
        THEN <<"\\", "s", "q", "r", "t", "[">> \o deg_latex \o <<"]", "{">> \o base_latex \o <<"}">>
        ELSE <<"\\", "s", "q", "r", "t", "{">> \o base_latex \o <<"}">>

\* OmmlParser._handle_radical
handle_radical(elem) ==
    LET deg == get_element(elem, "deg")
        base_latex == slot_latex(elem, "e")
        deg_latex == process_children(deg)
    IN  IF deg # None /\ ~deg_hide(elem) /\ deg_latex # <<>> /\ strip(deg_latex) # <<>>
        THEN <<"\\", "s", "q", "r", "t", "[">> \o deg_latex \o <<"]", "{">> \o base_latex \o <<"}">>
        ELSE <<"\\", "s", "q", "r", "t", "{">> \o base_latex \o <<"}">>

\* _handle_subscript/_handle_superscript/_handle_subsup: the base, wrapped in
\* braces if it is more than one character and does not start with a backslash
wrap_base(base) ==
    IF Len(base) > 1 /\ ~startswith_backslash(base)
    THEN <<"{">> \o base \o <<"}">>
    ELSE base

\* OmmlParser._handle_subscript
handle_subscript(elem) ==
    wrap_base(slot_latex(elem, "e")) \o <<"_", "{">> \o slot_latex(elem, "sub") \o <<"}">>

\* _handle_superscript with every non-empty base wrapped
handle_superscript_wraps_all(elem) ==
    LET base == slot_latex(elem, "e")
    IN  (IF Len(base) >= 1 THEN <<"{">> \o base \o <<"}">> ELSE base)
            \o <<"^", "{">> \o slot_latex(elem, "sup") \o <<"}">>

\* OmmlParser._handle_superscript
handle_superscript(elem) ==
    wrap_base(slot_latex(elem, "e")) \o <<"^", "{">> \o slot_latex(elem, "sup") \o <<"}">>

\* OmmlParser._handle_subsup
handle_subsup(elem) ==
    wrap_base(slot_latex(elem, "e"))
        \o <<"_", "{">> \o slot_latex(elem, "sub") \o <<"}", "^", "{">> \o slot_latex(elem, "sup") \o <<"}">>

\* OmmlParser._handle_presup
handle_presup(elem) ==
    <<"{", "}", "_", "{">> \o slot_latex(elem, "sub") \o <<"}", "^", "{">> \o slot_latex(elem, "sup") \o <<"}">>
        \o slot_latex(elem, "e")

\* _handle_nary with the limits of the over/under mode placed by \limits
handle_nary_limits(elem) ==
    LET narypr == get_element(elem, "naryPr")
        chr_elem == get_element(narypr, "chr")
        limloc_elem == get_element(narypr, "limLoc")
        chr_val == IF narypr # None /\ chr_elem # None
                   THEN get_val(chr_elem, <<"U+222B">>) ELSE <<"U+222B">>
        lim_loc == IF narypr # None /\ limloc_elem # None
                   THEN get_val(limloc_elem, <<"s", "u", "b", "S", "u", "p">>) ELSE <<"s", "u", "b", "S", "u", "p">>
        operator == get_nary_latex(chr_val)
        sub_latex == slot_latex(elem, "sub")
        sup_latex == slot_latex(elem, "sup")
        base_latex == slot_latex(elem, "e")
        limits == (IF sub_latex # <<>> THEN <<"_", "{">> \o sub_latex \o <<"}">> ELSE <<>>)
                      \o (IF sup_latex # <<>> THEN <<"^", "{">> \o sup_latex \o <<"}">> ELSE <<>>)
    IN  IF lim_loc = <<"u", "n", "d", "O", "v", "r">>
        THEN operator \o <<"\\", "l", "i", "m", "i", "t", "s">> \o limits \o <<" ">> \o base_latex
        ELSE operator \o limits \o <<" ">> \o base_latex

\* OmmlParser._handle_nary
handle_nary(elem) ==
    LET narypr == get_element(elem, "naryPr")
        chr_elem == get_element(narypr, "chr")
        limloc_elem == get_element(narypr, "limLoc")
        chr_val == IF narypr # None /\ chr_elem # None
                   THEN get_val(chr_elem, <<"U+222B">>) ELSE <<"U+222B">>
        lim_loc == IF narypr # None /\ limloc_elem # None
                   THEN get_val(limloc_elem, <<"s", "u", "b", "S", "u", "p">>) ELSE <<"s", "u", "b", "S", "u", "p">>
        operator == get_nary_latex(chr_val)
        sub_latex == slot_latex(elem, "sub")
        sup_latex == slot_latex(elem, "sup")
        base_latex == slot_latex(elem, "e")
        limits == (IF sub_latex # <<>> THEN <<"_", "{">> \o sub_latex \o <<"}">> ELSE <<>>)
                      \o (IF sup_latex # <<>> THEN <<"^", "{">> \o sup_latex \o <<"}">> ELSE <<>>)
    IN  IF lim_loc = <<"u", "n", "d", "O", "v", "r">>
        THEN operator \o limits \o <<" ">> \o base_latex
        ELSE operator \o limits \o <<" ">> \o base_latex

\* OmmlParser._handle_limlower
handle_limlower(elem) ==
    <<"\\", "u", "n", "d", "e", "r", "s", "e", "t", "{">> \o slot_latex(elem, "lim") \o <<"}", "{">> \o slot_latex(elem, "e") \o <<"}">>

\* OmmlParser._handle_limupper
handle_limupper(elem) ==
    <<"\\", "o", "v", "e", "r", "s", "e", "t", "{">> \o slot_latex(elem, "lim") \o <<"}", "{">> \o slot_latex(elem, "e") \o <<"}">>

\* _process_children of every element of a list (the list comprehension of the
\* loops over elem.iter(...))
each_children(elems) == [i \in 1..Len(elems) |-> process_children(elems[i])]

\* OmmlParser._handle_matrix
handle_matrix(elem) ==
    LET mrs == iter(elem, "mr")
        rows == [i \in 1..Len(mrs) |-> sep_join(<<" ", "&", " ">>, each_children(iter(mrs[i], "e")))]
        matrix_content == sep_join(<<" ", "\\", "\\", " ">>, rows)
    IN  <<"\\", "b", "e", "g", "i", "n", "{", "m", "a", "t", "r", "i", "x", "}", " ">> \o matrix_content \o <<" ", "\\", "e", "n", "d", "{", "m", "a", "t", "r", "i", "x", "}">>

\* _handle_delimiter: beg_chr, end_chr, sep_chr
delimiter_chr(elem, tag, default) ==
    LET dpr == get_element(elem, "dPr")
        chr_elem == get_element(dpr, tag)
    IN  IF dpr # None /\ chr_elem # None THEN get_val(chr_elem, default) ELSE default

\* _handle_delimiter: content
delimiter_content(elem) ==
    LET sep_chr == delimiter_chr(elem, "sepChr", <<>>)
        contents == each_children(iter(elem, "e"))
    IN  IF sep_chr # <<>> THEN sep_join(sep_chr, contents) ELSE join(contents)

\* _handle_delimiter with one bracket table for both sides
handle_delimiter_one_map(elem) ==
    LET beg_chr == delimiter_chr(elem, "begChr", <<"(">>)
        end_chr == delimiter_chr(elem, "endChr", <<")">>)
        content == delimiter_content(elem)
        left == dict_get(left_map, beg_chr, beg_chr)
        right == dict_get(left_map, end_chr, end_chr)
    IN  IF left # <<>> \/ right # <<>>
        THEN <<"\\", "l", "e", "f", "t">> \o left \o <<" ">> \o content \o <<" ", "\\", "r", "i", "g", "h", "t">> \o right
        ELSE content

\* OmmlParser._handle_delimiter
handle_delimiter(elem) ==
    LET beg_chr == delimiter_chr(elem, "begChr", <<"(">>)
        end_chr == delimiter_chr(elem, "endChr", <<")">>)
        content == delimiter_content(elem)
        left == dict_get(left_map, beg_chr, beg_chr)
        right == dict_get(right_map, end_chr, end_chr)
    IN  IF left # <<>> \/ right # <<>>
        THEN <<"\\", "l", "e", "f", "t">> \o left \o <<" ">> \o content \o <<" ", "\\", "r", "i", "g", "h", "t">> \o right
        ELSE content

\* OmmlParser._handle_eqarray
handle_eqarray(elem) ==
    LET rows == each_children(iter(elem, "e"))
    IN  <<"\\", "b", "e", "g", "i", "n", "{", "a", "l", "i", "g", "n", "e", "d", "}", " ">> \o sep_join(<<" ", "\\", "\\", " ">>, rows) \o <<" ", "\\", "e", "n", "d", "{", "a", "l", "i", "g", "n", "e", "d", "}">>

\* OmmlParser._handle_bar
handle_bar(elem) ==
    LET barpr == get_element(elem, "barPr")
        pos_elem == get_element(barpr, "pos")
        pos == IF barpr # None /\ pos_elem # None
               THEN get_val(pos_elem, <<"t", "o", "p">>) ELSE <<"t", "o", "p">>
        base == slot_latex(elem, "e")
    IN  IF pos = <<"b", "o", "t">>
        THEN <<"\\", "u", "n", "d", "e", "r", "l", "i", "n", "e", "{">> \o base \o <<"}">>
        ELSE <<"\\", "o", "v", "e", "r", "l", "i", "n", "e", "{">> \o base \o <<"}">>

\* _handle_accent: is_multi_char
is_multi_char(base) ==
    LET s1 == remove_all(base, <<"\\", "m", "a", "t", "h", "i", "t">>)
        s2 == remove_all(s1, <<"\\", "m", "a", "t", "h", "r", "m">>)
        s3 == remove_all(s2, <<"\\", "m", "a", "t", "h", "b", "f">>)
        base_stripped == remove_all(remove_all(s3, <<"{">>), <<"}">>)
    IN  Len(base_stripped) > 1

\* OmmlParser._handle_accent
handle_accent(elem) ==
    LET accpr == get_element(elem, "accPr")
        chr_elem == get_element(accpr, "chr")
        chr_val == IF accpr # None /\ chr_elem # None
                   THEN get_val(chr_elem, <<"U+0302">>) ELSE <<"U+0302">>
        base == slot_latex(elem, "e")
        accent_cmd == IF is_multi_char(base)
                      THEN dict_get(accent_map_wide, chr_val, <<"\\", "w", "i", "d", "e", "h", "a", "t">>)
                      ELSE dict_get(accent_map_narrow, chr_val, <<"\\", "h", "a", "t">>)
    IN  accent_cmd \o <<"{">> \o base \o <<"}">>

\* OmmlParser._handle_box
handle_box(elem) == slot_latex(elem, "e")

\* OmmlParser._handle_function
handle_function(elem) ==
    LET func_name == slot_latex(elem, "fName")
        arg == slot_latex(elem, "e")
        clean_name == strip(func_name)
    IN  IF is_function_name(clean_name)
        THEN get_function_latex(clean_name) \o <<" ">> \o arg
        ELSE func_name \o <<" ">> \o arg

\* OmmlParser._handle_groupchar
handle_groupchar(elem) ==
    LET groupchrpr == get_element(elem, "groupChrPr")
        chr_elem == get_element(groupchrpr, "chr")
        pos_elem == get_element(groupchrpr, "pos")
        chr_val == IF groupchrpr # None /\ chr_elem # None
                   THEN get_val(chr_elem, <<"U+23DF">>) ELSE <<"U+23DF">>
        pos == IF groupchrpr # None /\ pos_elem # None
               THEN get_val(pos_elem, <<"b", "o", "t">>) ELSE <<"b", "o", "t">>
        base == slot_latex(elem, "e")
    IN  IF chr_val = <<"U+23DE">> \/ pos = <<"t", "o", "p">>
        THEN <<"\\", "o", "v", "e", "r", "b", "r", "a", "c", "e", "{">> \o base \o <<"}">>
        ELSE <<"\\", "u", "n", "d", "e", "r", "b", "r", "a", "c", "e", "{">> \o base \o <<"}">>

\* OmmlParser._handle_borderbox
handle_borderbox(elem) == <<"\\", "b", "o", "x", "e", "d", "{">> \o slot_latex(elem, "e") \o <<"}">>

\* OmmlParser._handle_phantom
handle_phantom(elem) == <<"\\", "p", "h", "a", "n", "t", "o", "m", "{">> \o slot_latex(elem, "e") \o <<"}">>

\* _convert_element: the tags of the handlers dictionary
HandledTags ==
    {"oMath", "r", "t", "f", "rad", "sSub", "sSup", "sSubSup", "sPre", "nary",
     "limLow", "limUpp", "m", "d", "eqArr", "bar", "acc", "box", "func",
     "groupChr", "borderBox", "phant"}

\* OmmlParser._convert_element
convert_element(elem) ==
    CASE elem.tag = "oMath" -> handle_omath(elem)
      [] elem.tag = "r" -> handle_run(elem)
      [] elem.tag = "t" -> handle_text(elem)
      [] elem.tag = "f" -> handle_fraction(elem)
      [] elem.tag = "rad" -> handle_radical(elem)
      [] elem.tag = "sSub" -> handle_subscript(elem)
      [] elem.tag = "sSup" -> handle_superscript(elem)
      [] elem.tag = "sSubSup" -> handle_subsup(elem)
      [] elem.tag = "sPre" -> handle_presup(elem)
      [] elem.tag = "nary" -> handle_nary(elem)
      [] elem.tag = "limLow" -> handle_limlower(elem)
      [] elem.tag = "limUpp" -> handle_limupper(elem)
      [] elem.tag = "m" -> handle_matrix(elem)
      [] elem.tag = "d" -> handle_delimiter(elem)
      [] elem.tag = "eqArr" -> handle_eqarray(elem)
      [] elem.tag = "bar" -> handle_bar(elem)
      [] elem.tag = "acc" -> handle_accent(elem)
      [] elem.tag = "box" -> handle_box(elem)
      [] elem.tag = "func" -> handle_function(elem)
      [] elem.tag = "groupChr" -> handle_groupchar(elem)
      [] elem.tag = "borderBox" -> handle_borderbox(elem)
      [] elem.tag = "phant" -> handle_phantom(elem)
      [] OTHER -> process_children(elem)

\* The results of all children, the empty ones kept.
children_parts_keep_empty(kids) == [i \in 1..Len(kids) |-> convert_element(kids[i])]

\* _process_children: the loop over the children, the list `parts`
RECURSIVE children_parts(_)
children_parts(kids) ==
    IF kids = <<>> THEN <<>>
    ELSE LET result == convert_element(Head(kids))
         IN  (IF result # <<>> THEN <<result>> ELSE <<>>) \o children_parts(Tail(kids))

\* OmmlParser._process_children
process_children(elem) == join_with_spacing(children_parts(elem.kids))

(***************************************************************************)
(* Bounds and input sets                                                   *)
(***************************************************************************)
\* Longest text of a run given to map_text / _apply_style_smartly.
MaxTextLen == 3
\* Longest fragment given to _join_with_spacing, and the longest list of them.
MaxFragLen == 3
MaxParts == 3

\* All strings over the alphabet A of length at most n.
Strings(A, n) == UNION {[1..k -> A] : k \in 0..n}

\* Characters of a run's text: element-of (-> \in), alpha (-> \alpha), two
\* letters, a non-letter, a character escaped by the table (% -> \%), the
\* zero-width space (-> ""), the Greek capital Alpha (-> A) and the superscript
\* letter n (-> ^{n}).
TextAlphabet == {"U+2208", "U+03B1", "R", "p", "+", "%", "U+200B", "U+0391", "U+207F"}
Texts == Strings(TextAlphabet, MaxTextLen)

\* Function names in three letter cases, and names outside the set.
upper(s) == [i \in 1..Len(s) |->
               IF \E c \in DOMAIN LowerMap : LowerMap[c] = s[i]
               THEN CHOOSE c \in DOMAIN LowerMap : LowerMap[c] = s[i] ELSE s[i]]
capitalize(s) == [i \in 1..Len(s) |-> IF i = 1 THEN upper(s)[1] ELSE lower(s)[i]]
Names ==
    UNION {{f, lower(f), upper(f), capitalize(f)} : f \in FUNCTION_NAMES}
        \cup {<<"x", "y", "z">>, <<"c", "u", "s", "t", "o", "m">>, <<"s", "i">>, <<"s", "i", "n", "n">>, <<"f">>, <<>>}

\* The style wrappers _handle_run can choose.
StyleWrappers ==
    { <<<<"\\", "m", "a", "t", "h", "c", "a", "l", "{">>, <<"}">>>>, <<<<"\\", "m", "a", "t", "h", "f", "r", "a", "k", "{">>, <<"}">>>>, <<<<"\\", "m", "a", "t", "h", "b", "b", "{">>, <<"}">>>>,
      <<<<"\\", "m", "a", "t", "h", "s", "f", "{">>, <<"}">>>>, <<<<"\\", "m", "a", "t", "h", "t", "t", "{">>, <<"}">>>>, <<<<"\\", "m", "a", "t", "h", "b", "f", "{">>, <<"}">>>>,
      <<<<"\\", "m", "a", "t", "h", "i", "t", "{">>, <<"}">>>>, <<<<"\\", "b", "o", "l", "d", "s", "y", "m", "b", "o", "l", "{">>, <<"}">>>> }

\* Fragments: every short string over a backslash, a letter, a brace, a
\* bracket and a non-letter, the fragments of the documented examples, and
\* commands followed by the other brace and bracket.
JoinAlphabet == {"\\", "a", "{", "]", "+"}
ExampleFragments ==
    {<<"\\", "a", "l", "p", "h", "a">>, <<"b", "e", "t", "a">>, <<"\\", "f", "r", "a", "c", "{", "a", "}", "{", "b", "}">>, <<"+", "c">>, <<"\\", "a", "}", "b">>, <<"\\", "a", "[", "b">>, <<"\\", "i", "n">>, <<"\\", "m", "a", "t", "h", "b", "b", "{", "R", "}">>}
Fragments == Strings(JoinAlphabet, MaxFragLen) \cup ExampleFragments
ShortFragments == {<<>>, <<"\\", "a">>, <<"a">>, <<"+">>, <<"\\", "a", "{">>}
PartLists ==
    UNION {[1..k -> Fragments] : k \in 0..2}
        \cup UNION {[1..k -> ShortFragments] : k \in 3..MaxParts}

\* Every token the combined table registers as an output.
Tokens == {symbol_map[c] : c \in DOMAIN symbol_map}

\* One-character strings: every glyph of the combined table, every invisible
\* character, and characters of neither kind.
PlainChars == {"a", "Z", "0", "+", "-", "\\", " ", "{", "^", "U+00E9"}
Chars == {<<c>> : c \in DOMAIN symbol_map \cup INVISIBLE_CHARS \cup PlainChars}

(***************************************************************************)
(* Calls of the symbol table: one call per behaviour, on an input drawn   *)
(* in the initial state.                                                   *)
(***************************************************************************)
InitSymbols ==
    op = "none" /\ input \in Texts \cup Names \cup Tokens \cup Chars /\ output = <<>>

MapChar ==
    /\ op = "none" /\ Len(input) = 1
    /\ op' = "map_char"
    /\ output' = map_char(input[1])
    /\ UNCHANGED input

MapText ==
    /\ op = "none"
    /\ op' = "map_text"
    /\ output' = map_text(input)
    /\ UNCHANGED input

IsFunctionName ==
    /\ op = "none"
    /\ op' = "is_function_name"
    /\ output' = is_function_name(input)
    /\ UNCHANGED input

GetFunctionLatex ==
    /\ op = "none"
    /\ op' = "get_function_latex"
    /\ output' = get_function_latex(input)
    /\ UNCHANGED input

NextSymbols == MapChar \/ MapText \/ IsFunctionName \/ GetFunctionLatex
SpecSymbols == InitSymbols /\ [][NextSymbols]_vars

(***************************************************************************)
(* Calls of the Spacing Policy                                             *)
(***************************************************************************)
InitJoin == op = "none" /\ input \in PartLists /\ output = <<>>

JoinWithSpacing ==
    /\ op = "none"
    /\ op' = "join_with_spacing"
    /\ output' = join_with_spacing(input)
    /\ UNCHANGED input

NextJoin == JoinWithSpacing
SpecJoin == InitJoin /\ [][NextJoin]_vars

(***************************************************************************)
(* Calls of the Style Applicator                                           *)
(***************************************************************************)
InitStyle ==
    /\ op = "none"
    /\ input \in {[text |-> t, prefix |-> w[1], suffix |-> w[2]] :
                     t \in Texts, w \in StyleWrappers}
    /\ output = <<>>

ApplyStyleSmartly ==
    /\ op = "none"
    /\ op' = "apply_style_smartly"
    /\ output' = apply_style_smartly(input.text, input.prefix, input.suffix)
    /\ UNCHANGED input

NextStyle == ApplyStyleSmartly
SpecStyle == InitStyle /\ [][NextStyle]_vars

(***************************************************************************)
(* Input trees                                                             *)
(***************************************************************************)
\* Longest operand text of a fraction (the \dfrac threshold is 5).
MaxOperandLen == 6

Elem(tag, kids) == [tag |-> tag, val |-> <<>>, text |-> <<>>, kids |-> kids]
Attr(tag, v) == [tag |-> tag, val |-> <<v>>, text |-> <<>>, kids |-> <<>>]
TextElem(s) == [tag |-> "t", val |-> <<>>, text |-> s, kids |-> <<>>]
Run(s) == Elem("r", <<TextElem(s)>>)
\* a run with one property element (scr or sty) of value v in its rPr
StyledRun(s, prop, v) == Elem("r", <<Elem("rPr", <<Attr(prop, v)>>), TextElem(s)>>)

\* A slot that may be missing: <<>> is the missing slot, <<kids>> the slot
\* present with these children.
Options(kidsSet) == {<<>>} \cup {<<k>> : k \in kidsSet}
Slot(tag, o) == IF o = <<>> THEN <<>> ELSE <<Elem(tag, o[1])>>

\* A property element `pr` holding the elements props; <<>> for no property element.
Props(pr, propsSet) == {<<>>} \cup {<<Elem(pr, p)>> : p \in propsSet}

RepA(n) == [i \in 1..n |-> "a"]
SupX2 == Elem("sSup", <<Elem("e", <<Run(<<"x">>)>>), Elem("sup", <<Run(<<"2">>)>>)>>)
FracAB == Elem("f", <<Elem("num", <<Run(<<"a">>)>>), Elem("den", <<Run(<<"b">>)>>)>>)

OperandKids ==
    {<<>>, <<Run(<<"U+03B1">>)>>} \cup {<<Run(RepA(n))>> : n \in 1..MaxOperandLen}
FracProps ==
    Props("fPr", {<<>>, <<Elem("type", <<>>)>>}
                   \cup {<<Attr("type", v)>> : v \in {<<"b", "a", "r">>, <<"n", "o", "B", "a", "r">>, <<"s", "k", "w">>, <<"l", "i", "n">>, <<"z", "z">>}})
Fractions ==
    {Elem("f", p \o Slot("num", n) \o Slot("den", d)) :
        p \in FracProps, n \in Options(OperandKids), d \in Options(OperandKids)}

RadProps ==
    Props("radPr", {<<>>, <<Elem("degHide", <<>>)>>}
                     \cup {<<Attr("degHide", v)>> : v \in {<<"1">>, <<"0">>, <<"o", "n">>}})
Radicals ==
    {Elem("rad", p \o Slot("deg", g) \o Slot("e", e)) :
        p \in RadProps,
        g \in Options({<<>>, <<Run(<<"3">>)>>, <<Run(<<" ">>)>>, <<Run(<<"n">>)>>}),
        e \in Options({<<>>, <<Run(<<"x">>)>>, <<Run(<<"x", "y">>)>>})}

BaseKids ==
    {<<>>, <<Run(<<"x">>)>>, <<Run(<<"x", "y">>)>>, <<Run(<<"U+03B1">>)>>, <<Run(<<"U+03B1", "b">>)>>,
     <<Run(<<"x">>), Run(<<"y">>)>>, <<StyledRun(<<"x">>, "sty", <<"b">>)>>, <<SupX2>>}
ScriptKids == {<<>>, <<Run(<<"2">>)>>, <<Run(<<"i">>)>>}
Scripts ==
    {Elem("sSub", Slot("e", e) \o Slot("sub", s)) :
        e \in Options(BaseKids), s \in Options(ScriptKids)}
    \cup {Elem("sSup", Slot("e", e) \o Slot("sup", s)) :
        e \in Options(BaseKids), s \in Options(ScriptKids)}
    \cup {Elem(tag, Slot("e", e) \o Slot("sub", s) \o Slot("sup", t)) :
        tag \in {"sSubSup", "sPre"},
        e \in Options(BaseKids), s \in Options(ScriptKids), t \in Options(ScriptKids)}

NaryProps ==
    Props("naryPr",
          {<<>>, <<Elem("chr", <<>>)>>, <<Attr("chr", <<"U+2211">>)>>, <<Attr("chr", <<"x">>)>>,
           <<Attr("chr", <<"U+2211">>), Attr("limLoc", <<"u", "n", "d", "O", "v", "r">>)>>,
           <<Attr("limLoc", <<"u", "n", "d", "O", "v", "r">>)>>, <<Attr("limLoc", <<"s", "u", "b", "S", "u", "p">>)>>,
           <<Elem("limLoc", <<>>)>>})
Narys ==
    {Elem("nary", p \o Slot("sub", s) \o Slot("sup", t) \o Slot("e", e)) :
        p \in NaryProps,
        s \in Options({<<>>, <<Run(<<"i">>)>>}), t \in Options({<<>>, <<Run(<<"n">>)>>}),
        e \in Options({<<>>, <<Run(<<"x">>)>>})}

Limits ==
    {Elem(tag, Slot("e", e) \o Slot("lim", l)) :
        tag \in {"limLow", "limUpp"},
        e \in Options({<<>>, <<Run(<<"l", "i", "m">>)>>, <<Run(<<"x">>)>>}),
        l \in Options({<<>>, <<Run(<<"n">>)>>, <<Run(<<"n", "U+2192", "U+221E">>)>>})}

\* Glyphs of a delimiter's begChr / endChr: the brackets of both tables, the
\* empty glyph and a glyph neither table lists.
Glyphs ==
    {<<"(">>, <<")">>, <<"[">>, <<"]">>, <<"{">>, <<"}">>, <<"|">>, <<"U+2016">>, <<"U+27E8">>, <<"U+27E9">>,
     <<"U+2308">>, <<"U+2309">>, <<"U+230A">>, <<"U+230B">>, <<>>, <<"<">>}
\* A property element that is absent (<<>>), has no m:val, or has the value v.
ChrOptions(tag, vals) == {<<>>, <<Elem(tag, <<>>)>>} \cup {<<Attr(tag, v)>> : v \in vals}
DelimiterBodies ==
    { <<<<>>, <<>>>>,
      <<<<>>, <<Elem("e", <<Run(<<"x">>)>>)>>>>,
      <<<<>>, <<Elem("e", <<Run(<<"x">>)>>), Elem("e", <<Run(<<"y">>)>>)>>>>,
      <<<<Attr("sepChr", <<",">>)>>, <<Elem("e", <<Run(<<"x">>)>>), Elem("e", <<Run(<<"y">>)>>)>>>>,
      <<<<Attr("sepChr", <<>>)>>, <<Elem("e", <<Run(<<"x">>)>>), Elem("e", <<Run(<<"y">>)>>)>>>>,
      <<<<Elem("sepChr", <<>>)>>, <<Elem("e", <<FracAB>>)>>>>,
      <<<<>>, <<Elem("e", <<SupX2>>)>>>>,
      <<<<>>, <<Elem("e", <<Run(<<"U+03B1">>)>>), Elem("e", <<Run(<<"b">>)>>)>>>>,
      <<<<Attr("sepChr", <<"|">>)>>, <<Elem("e", <<Run(<<"U+03B1">>)>>), Elem("e", <<Run(<<"b">>)>>)>>>> }
Delimiters ==
    {Elem("d", <<Elem("dPr", b \o e \o body[1])>> \o body[2]) :
        b \in ChrOptions("begChr", Glyphs), e \in ChrOptions("endChr", Glyphs),
        body \in DelimiterBodies}
    \cup {Elem("d", body[2]) : body \in DelimiterBodies}

AccentGlyphs == DOMAIN accent_map_wide \cup {<<"x">>}
AccentBases ==
    {<<>>, <<Run(<<"a">>)>>, <<Run(<<"a", "b">>)>>, <<Run(<<"U+03B1">>)>>,
     <<StyledRun(<<"a">>, "sty", <<"b">>)>>, <<StyledRun(<<"R">>, "scr", <<"d", "o", "u", "b", "l", "e", "-", "s", "t", "r", "u", "c", "k">>)>>,
     <<StyledRun(<<"a", "b">>, "sty", <<"i">>)>>, <<Run(<<"a">>), Run(<<"b">>)>>,
     <<Run(<<"U+200B", "a">>)>>}
Accents ==
    {Elem("acc", p \o Slot("e", e)) :
        p \in Props("accPr", ChrOptions("chr", AccentGlyphs)), e \in Options(AccentBases)}

SimpleBases == Options({<<>>, <<Run(<<"x">>)>>, <<Run(<<"x", "y">>)>>})
Bars ==
    {Elem("bar", p \o Slot("e", e)) :
        p \in Props("barPr", ChrOptions("pos", {<<"t", "o", "p">>, <<"b", "o", "t">>})), e \in SimpleBases}
GroupChars ==
    {Elem("groupChr", p \o Slot("e", e)) :
        p \in Props("groupChrPr",
                    {c \o q : c \in ChrOptions("chr", {<<"U+23DE">>, <<"U+23DF">>}),
                              q \in ChrOptions("pos", {<<"t", "o", "p">>, <<"b", "o", "t">>})}),
        e \in SimpleBases}
Boxes == {Elem(tag, Slot("e", e)) : tag \in {"box", "borderBox", "phant"}, e \in SimpleBases}

Functions ==
    {Elem("func", Slot("fName", f) \o Slot("e", e)) :
        f \in Options({<<>>, <<Run(<<"s", "i", "n">>)>>, <<Run(<<"S", "i", "n">>)>>, <<Run(<<"s">>), Run(<<"i", "n">>)>>,
                       <<Run(<<"x", "y", "z">>)>>, <<Run(<<"P", "r">>)>>, <<Run(<<"m", "o", "d">>)>>, <<Run(<<" ", "f">>)>>}),
        e \in SimpleBases}

RunTexts == {<<>>, <<"x">>, <<"s", "i", "n">>, <<"U+03B1", "p">>, <<"U+2208", "R">>, <<"a", "+", "b">>, <<"P", "r">>}
RunProps ==
    Props("rPr",
          {<<>>} \cup {s \o w : s \in ChrOptions("scr", DOMAIN script_map \cup {<<"r", "o", "m", "a", "n">>}),
                                w \in ChrOptions("sty", {<<"p">>, <<"b">>, <<"i">>, <<"b", "i">>})})
Runs ==
    {Elem("r", p \o <<TextElem(t)>>) : p \in RunProps, t \in RunTexts}
    \cup {Elem("r", <<>>), Elem("r", <<TextElem(<<"x">>), TextElem(<<"y">>)>>)}
    \cup {TextElem(t) : t \in RunTexts}

Cell(kids) == Elem("e", kids)
Matrices ==
    { Elem("m", <<>>),
      Elem("m", <<Elem("mr", <<>>)>>),
      Elem("m", <<Elem("mr", <<Cell(<<Run(<<"a">>)>>)>>)>>),
      Elem("m", <<Elem("mPr", <<>>),
                  Elem("mr", <<Cell(<<Run(<<"a">>)>>), Cell(<<Run(<<"b">>)>>)>>),
                  Elem("mr", <<Cell(<<Run(<<"c">>)>>), Cell(<<Run(<<"d">>)>>)>>)>>),
      Elem("m", <<Elem("mr", <<Cell(<<SupX2>>), Cell(<<>>)>>)>>),
      Elem("eqArr", <<>>),
      Elem("eqArr", <<Cell(<<Run(<<"a">>)>>)>>),
      Elem("eqArr", <<Cell(<<Run(<<"a">>)>>), Cell(<<Run(<<"b">>)>>)>>),
      Elem("eqArr", <<Cell(<<SupX2>>), Cell(<<>>)>>) }

\* Roots and elements of an unknown kind over lists of children.
Siblings ==
    {Run(<<"U+03B1">>), Run(<<"b">>), Run(<<>>), Run(<<"+">>), FracAB, SupX2}
\* The longest list of children of a root.
MaxSiblings == 3
Roots ==
    {Elem(tag, kids) : tag \in {"oMath", "zz"},
                       kids \in UNION {[1..k -> Siblings] : k \in 0..MaxSiblings}}

Trees ==
    Fractions \cup Radicals \cup Scripts \cup Narys \cup Limits \cup Delimiters
        \cup Accents \cup Bars \cup GroupChars \cup Boxes \cup Functions \cup Runs
        \cup Matrices \cup Roots

(***************************************************************************)
(* Calls of the Node Transpiler                                            *)
(***************************************************************************)
InitTree == op = "none" /\ input \in Trees /\ output = <<>>

ConvertElement ==
    /\ op = "none"
    /\ op' = "convert_element"
    /\ output' = convert_element(input)
    /\ UNCHANGED input

NextTree == ConvertElement
SpecTree == InitTree /\ [][NextTree]_vars

(***************************************************************************)
(* Properties                                                              *)
(***************************************************************************)
\* A command token that ends in a letter: starts with a backslash, last
\* character alphabetic.
IsLetterEndingCommand(t) == t # <<>> /\ t[1] = "\\" /\ isalpha(t[Len(t)])

\* s contains sub as a contiguous substring.
Contains(s, sub) ==
    \E k \in 0..(Len(s) - Len(sub)) : SubSeq(s, k + 1, k + Len(sub)) = sub

\* A character the Style Applicator wraps: a letter that does not map to a
\* command.
IsWrappedLetter(c) == isalpha(c) /\ ~startswith_backslash(map_char(c))

\* The maximal span of wrapped letters of text that starts at position i.
LetterSpan(text, i) ==
    LET j == CHOOSE j \in i..Len(text) :
                 /\ \A k \in i..j : IsWrappedLetter(text[k])
                 /\ (j = Len(text) \/ ~IsWrappedLetter(text[j + 1]))
    IN  SubSeq(text, i, j)

\* C1: Style-smart splitting.  Styling the text "element-of, R" with the
\* double-struck wrapper yields \in \mathbb{R}; in general wherever a character
\* that maps to a letter-ending command is directly followed by a letter, the
\* output holds the command, one space, then the wrapped letter span.
C1_StyleSmartSplitting ==
    op = "apply_style_smartly" =>
        /\ (input.text = <<"U+2208", "R">> /\ input.prefix = <<"\\", "m", "a", "t", "h", "b", "b", "{">>)
               => output = <<"\\", "i", "n", " ", "\\", "m", "a", "t", "h", "b", "b", "{", "R", "}">>
        /\ \A i \in 1..(Len(input.text) - 1) :
               (/\ IsLetterEndingCommand(map_char(input.text[i]))
                /\ IsWrappedLetter(input.text[i + 1]))
               => Contains(output,
                      map_char(input.text[i]) \o <<" ">> \o input.prefix
                          \o LetterSpan(input.text, i + 1) \o input.suffix)

\* Spacing Policy, stated on two fragments: a space separates a and b exactly
\* when a has a backslash whose remainder is non-empty, holds no brace or
\* bracket and ends in a letter, and b starts with a letter.
SpaceBetween(a, b) ==
    /\ \E k \in 1..Len(a) :
           /\ a[k] = "\\"
           /\ k < Len(a)
           /\ \A j \in (k + 1)..Len(a) : a[j] \notin {"\\", "{", "}", "[", "]"}
           /\ isalpha(a[Len(a)])
    /\ b # <<>> /\ isalpha(b[1])

\* The fragments in order with a space exactly where SpaceBetween asks for one.
RECURSIVE SpacedConcat(_)
SpacedConcat(parts) ==
    IF parts = <<>> THEN <<>>
    ELSE IF Len(parts) = 1 THEN parts[1]
    ELSE parts[1] \o (IF SpaceBetween(parts[1], parts[2]) THEN <<" ">> ELSE <<>>)
             \o SpacedConcat(Tail(parts))

\* C2: Spacing Policy.  The join of a list of fragments is the fragments in
\* order with exactly one space between fragment i and i+1 iff the remainder of
\* fragment i after its last backslash is non-empty, has none of { } [ ] and
\* ends in a letter, and fragment i+1 starts with a letter; nothing else is
\* added, removed or reordered.  [\alpha, beta] gives "\alpha beta" and
\* [\frac{a}{b}, +c] gives "\frac{a}{b}+c".
C2_SpacingPolicy ==
    op = "join_with_spacing" =>
        /\ output = SpacedConcat(input)
        /\ input = <<<<"\\", "a", "l", "p", "h", "a">>, <<"b", "e", "t", "a">>>> => output = <<"\\", "a", "l", "p", "h", "a", " ", "b", "e", "t", "a">>
        /\ input = <<<<"\\", "f", "r", "a", "c", "{", "a", "}", "{", "b", "}">>, <<"+", "c">>>> => output = <<"\\", "f", "r", "a", "c", "{", "a", "}", "{", "b", "}", "+", "c">>

\* C2 happens: the two documented joins were made, one with a space inserted.
C2_Witness ==
    /\ op = "join_with_spacing"
    /\ input = <<<<"\\", "a", "l", "p", "h", "a">>, <<"b", "e", "t", "a">>>>
    /\ output = <<"\\", "a", "l", "p", "h", "a", " ", "b", "e", "t", "a">>

\* C3: is_function_name is a case-insensitive membership test: true for every
\* name of FUNCTION_NAMES in any letter case (Pr and mod included), false for
\* every other name.
C3_IsFunctionNameCaseInsensitive ==
    op = "is_function_name" =>
        (output <=> \E f \in FUNCTION_NAMES : lower(f) = lower(input))

\* The piece of map_text's output that belongs to the character at position i.
MappedPiece(s, i) ==
    map_char(s[i]) \o
        (IF /\ IsLetterEndingCommand(map_char(s[i]))
            /\ i < Len(s)
            /\ isalpha(s[i + 1])
         THEN <<" ">> ELSE <<>>)

\* C4: map_text(s) is the concatenation, in input order, of map_char of every
\* character, with one space after a mapped command token (starts with a
\* backslash, ends in a letter) exactly when the next character of s is
\* alphabetic, and nothing else inserted; alpha then p gives "\alpha p".
C4_MapText ==
    op = "map_text" =>
        /\ output = join([i \in 1..Len(input) |-> MappedPiece(input, i)])
        /\ input = <<"U+03B1", "p">> => output = <<"\\", "a", "l", "p", "h", "a", " ", "p">>

\* C4 happens: alpha followed by p was mapped and the space is there.
C4_Witness ==
    /\ op = "map_text"
    /\ input = <<"U+03B1", "p">>
    /\ output = <<"\\", "a", "l", "p", "h", "a", " ", "p">>

\* The child slots each node kind reads.
SlotTags(tag) ==
    CASE tag = "f" -> {"num", "den"}
      [] tag = "rad" -> {"deg", "e"}
      [] tag = "sSub" -> {"e", "sub"}
      [] tag = "sSup" -> {"e", "sup"}
      [] tag \in {"sSubSup", "sPre", "nary"} -> {"e", "sub", "sup"}
      [] tag \in {"limLow", "limUpp"} -> {"e", "lim"}
      [] tag = "func" -> {"fName", "e"}
      [] tag = "m" -> {"mr"}
      [] tag \in {"d", "eqArr", "bar", "acc", "box", "groupChr", "borderBox", "phant"} -> {"e"}
      [] OTHER -> {}

MissingSlots(elem) == {s \in SlotTags(elem.tag) : get_element(elem, s) = None}
WithEmptySlot(elem, s) == [elem EXCEPT !.kids = Append(@, Elem(s, <<>>))]

GlyphOf(elem, tag, default) ==
    IF \E i \in 1..Len(elem.kids) : elem.kids[i].tag = "dPr"
    THEN LET dpr == get_element(elem, "dPr")
         IN  IF \E i \in 1..Len(dpr.kids) : dpr.kids[i].tag = tag /\ dpr.kids[i].val # <<>>
             THEN get_element(dpr, tag).val[1]
             ELSE default
    ELSE default

\* The begin glyph as LaTeX: brace escaped, double pipe \|, angle / ceiling /
\* floor brackets by name, every other glyph as it is.
LeftGlyph(g) ==
    CASE g = <<"{">> -> <<"\\", "{">>
      [] g = <<"U+2016">> -> <<"\\", "|">>
      [] g = <<"U+27E8">> -> <<"\\", "l", "a", "n", "g", "l", "e">>
      [] g = <<"U+2308">> -> <<"\\", "l", "c", "e", "i", "l">>
      [] g = <<"U+230A">> -> <<"\\", "l", "f", "l", "o", "o", "r">>
      [] OTHER -> g

\* The end glyph as LaTeX.
RightGlyph(g) ==
    CASE g = <<"}">> -> <<"\\", "}">>
      [] g = <<"U+2016">> -> <<"\\", "|">>
      [] g = <<"U+27E9">> -> <<"\\", "r", "a", "n", "g", "l", "e">>
      [] g = <<"U+2309">> -> <<"\\", "r", "c", "e", "i", "l">>
      [] g = <<"U+230B">> -> <<"\\", "r", "f", "l", "o", "o", "r">>
      [] OTHER -> g

\* C7: Delimiter bracket mapping.  A Delimiter resolves its begin and end
\* glyphs (the parenthesis pair when unspecified), maps the begin glyph through
\* the left table and the end glyph through the right table, and emits
\* \left<left> <content> \right<right> if either mapped glyph is non-empty,
\* else the bare content; begin {, end }, inner x gives \left\{ x \right\}.
C7_DelimiterMapping ==
    (op = "convert_element" /\ input.tag = "d") =>
        LET left == LeftGlyph(GlyphOf(input, "begChr", <<"(">>))
            right == RightGlyph(GlyphOf(input, "endChr", <<")">>))
            content == delimiter_content(input)
        IN  /\ output = IF left # <<>> \/ right # <<>>
                        THEN <<"\\", "l", "e", "f", "t">> \o left \o <<" ">> \o content \o <<" ", "\\", "r", "i", "g", "h", "t">> \o right
                        ELSE content
            /\ input = Elem("d", <<Elem("dPr", <<Attr("begChr", <<"{">>), Attr("endChr", <<"}">>)>>),
                                   Elem("e", <<Run(<<"x">>)>>)>>)
                   => output = <<"\\", "l", "e", "f", "t", "\\", "{", " ", "x", " ", "\\", "r", "i", "g", "h", "t", "\\", "}">>

\* C7 happens: a delimiter with curly braces around x was transpiled.
C7_Witness ==
    /\ op = "convert_element"
    /\ input = Elem("d", <<Elem("dPr", <<Attr("begChr", <<"{">>), Attr("endChr", <<"}">>)>>),
                           Elem("e", <<Run(<<"x">>)>>)>>)
    /\ output = <<"\\", "l", "e", "f", "t", "\\", "{", " ", "x", " ", "\\", "r", "i", "g", "h", "t", "\\", "}">>

\* The characters of an accent's base that are displayed: the text of its base
\* slot without the invisible formatting characters.
VisibleChars(s) == SelectSeq(s, LAMBDA c : c \notin INVISIBLE_CHARS)

\* The accent glyph of an Accent node (circumflex when unspecified).
AccentGlyph(elem) ==
    LET accpr == get_element(elem, "accPr")
        chr_elem == get_element(accpr, "chr")
    IN  IF chr_elem # None /\ chr_elem.val # <<>> THEN chr_elem.val[1] ELSE <<"U+0302">>

\* C8: Accent multiplicity.  An Accent whose base is text selects the wide
\* variant of its accent command exactly when the base has several characters
\* and the narrow variant when it has one (a letter, a symbol that maps to a
\* command, a styled letter); an unknown glyph falls back to \widehat / \hat.
C8_AccentMultiplicity ==
    (op = "convert_element" /\ input.tag = "acc") =>
        LET multi == Len(VisibleChars(get_text(get_element(input, "e")))) > 1
            cmd == IF multi
                   THEN dict_get(accent_map_wide, AccentGlyph(input), <<"\\", "w", "i", "d", "e", "h", "a", "t">>)
                   ELSE dict_get(accent_map_narrow, AccentGlyph(input), <<"\\", "h", "a", "t">>)
        IN  output = cmd \o <<"{">> \o slot_latex(input, "e") \o <<"}">>

\* C9: Fraction.  With numerator n and denominator d the node emits
\* \binom{n}{d} for kind noBar, {n}/{d} for kinds skw and lin, and for kind bar
\* (also unspecified or unrecognized) \dfrac{n}{d} if n or d is longer than 5
\* characters and \frac{n}{d} otherwise; a / b with a bar gives \frac{a}{b}.
C9_Fraction ==
    (op = "convert_element" /\ input.tag = "f") =>
        LET n == slot_latex(input, "num")
            d == slot_latex(input, "den")
            kind == frac_type(input)
            args == n \o <<"}", "{">> \o d \o <<"}">>
        IN  /\ kind = <<"n", "o", "B", "a", "r">> => output = <<"\\", "b", "i", "n", "o", "m", "{">> \o args
            /\ kind \in {<<"s", "k", "w">>, <<"l", "i", "n">>} => output = <<"{">> \o n \o <<"}", "/", "{">> \o d \o <<"}">>
            /\ (kind \notin {<<"n", "o", "B", "a", "r">>, <<"s", "k", "w">>, <<"l", "i", "n">>} /\ (Len(n) > 5 \/ Len(d) > 5))
                   => output = <<"\\", "d", "f", "r", "a", "c", "{">> \o args
            /\ (kind \notin {<<"n", "o", "B", "a", "r">>, <<"s", "k", "w">>, <<"l", "i", "n">>} /\ Len(n) <= 5 /\ Len(d) <= 5)
                   => output = <<"\\", "f", "r", "a", "c", "{">> \o args
            /\ input = FracAB => output = <<"\\", "f", "r", "a", "c", "{", "a", "}", "{", "b", "}">>

\* C9 happens: a bar fraction whose numerator is exactly 5 characters long was
\* transpiled, and it is a \frac.
C9_Witness ==
    /\ op = "convert_element"
    /\ input = Elem("f", <<Elem("num", <<Run(<<"a", "a", "a", "a", "a">>)>>), Elem("den", <<Run(<<"a">>)>>)>>)
    /\ output = <<"\\", "f", "r", "a", "c", "{", "a", "a", "a", "a", "a", "}", "{", "a", "}">>

\* C10 as first stated: a Radical emits \sqrt[deg]{base} whenever its degree
\* slot is present and the degree-hidden flag is not set, and \sqrt{base} in
\* every other case.
C10_RadicalAsStated ==
    (op = "convert_element" /\ input.tag = "rad") =>
        LET deg == get_element(input, "deg")
            base == slot_latex(input, "e")
        IN  output = IF deg # None /\ ~deg_hide(input)
                     THEN <<"\\", "s", "q", "r", "t", "[">> \o process_children(deg) \o <<"]", "{">> \o base \o <<"}">>
                     ELSE <<"\\", "s", "q", "r", "t", "{">> \o base \o <<"}">>

\* C10: Radical.  A Radical emits \sqrt[deg]{base} whenever its degree slot is
\* present, the degree-hidden flag is not set and the degree fragment holds a
\* character that is not white space; it emits \sqrt{base} in every other case.
C10_Radical ==
    (op = "convert_element" /\ input.tag = "rad") =>
        LET deg == get_element(input, "deg")
            base == slot_latex(input, "e")
            shown == /\ deg # None
                     /\ ~deg_hide(input)
                     /\ \E k \in 1..Len(process_children(deg)) : process_children(deg)[k] # " "
        IN  output = IF shown
                     THEN <<"\\", "s", "q", "r", "t", "[">> \o process_children(deg) \o <<"]", "{">> \o base \o <<"}">>
                     ELSE <<"\\", "s", "q", "r", "t", "{">> \o base \o <<"}">>

\* C10 happens: a cube root was transpiled with its degree.
C10_Witness ==
    /\ op = "convert_element"
    /\ input = Elem("rad", <<Elem("deg", <<Run(<<"3">>)>>), Elem("e", <<Run(<<"x">>)>>)>>)
    /\ output = <<"\\", "s", "q", "r", "t", "[", "3", "]", "{", "x", "}">>


\* C11 as stated: map_char is stable on a single plain character it returns,
\* and map_text returns every token the table registers as an output (named
\* commands, escaped literals, script forms) unchanged.
C11_IdempotenceAsStated ==
    /\ (op = "map_char" /\ Len(output) = 1) => map_char(output[1]) = output
    /\ (op = "map_text" /\ input \in Tokens) => output = input

\* The characters the table escapes.
EscapedChars == {"%", "#", "&", "$", "_"}

\* C11: map_char is stable on a single plain character it returns, and
\* map_text returns unchanged every registered output token that holds none of
\* the characters % # & $ _ (the named commands, the plain characters and the
\* superscript forms); in an escaped literal or a subscript form it escapes
\* that character again and leaves the rest of the token as it is.
C11_Idempotence ==
    /\ (op = "map_char" /\ Len(output) = 1) => map_char(output[1]) = output
    /\ (op = "map_text" /\ input \in Tokens) =>
           /\ (\A i \in 1..Len(input) : input[i] \notin EscapedChars) => output = input
           /\ output = join([i \in 1..Len(input) |->
                  IF input[i] \in EscapedChars THEN <<"\\", input[i]>> ELSE <<input[i]>>])

\* C11 happens: the token \alpha went through map_text and came back unchanged.
C11_Witness ==
    /\ op = "map_text"
    /\ input = <<"\\", "a", "l", "p", "h", "a">>
    /\ output = <<"\\", "a", "l", "p", "h", "a">>

\* The names that have a native typesetting command.
NativeNames ==
    { <<"s", "i", "n">>, <<"c", "o", "s">>, <<"t", "a", "n">>, <<"c", "o", "t">>, <<"s", "e", "c">>, <<"c", "s", "c">>, <<"s", "i", "n", "h">>, <<"c", "o", "s", "h">>,
      <<"t", "a", "n", "h">>, <<"c", "o", "t", "h">>, <<"a", "r", "c", "s", "i", "n">>, <<"a", "r", "c", "c", "o", "s">>, <<"a", "r", "c", "t", "a", "n">>, <<"e", "x", "p">>, <<"l", "o", "g">>,
      <<"l", "n">>, <<"l", "g">>, <<"l", "i", "m">>, <<"l", "i", "m", "i", "n", "f">>, <<"l", "i", "m", "s", "u", "p">>, <<"m", "a", "x">>, <<"m", "i", "n">>, <<"s", "u", "p">>,
      <<"i", "n", "f">>, <<"a", "r", "g">>, <<"d", "e", "t">>, <<"d", "i", "m">>, <<"g", "c", "d">>, <<"h", "o", "m">>, <<"k", "e", "r">>, <<"d", "e", "g">>, <<"P", "r">> }

\* C12: get_function_latex(name) is the backslash-prefixed native command for
\* every name of the native subset (Pr included) in any letter case, and
\* \operatorname{name}, the name copied literally, for every other name: sin
\* gives \sin, log gives \log, custom gives \operatorname{custom}.
C12_GetFunctionLatex ==
    op = "get_function_latex" =>
        /\ \A n \in NativeNames : lower(n) = lower(input) => output = <<"\\">> \o n
        /\ (\A n \in NativeNames : lower(n) # lower(input))
               => output = <<"\\", "o", "p", "e", "r", "a", "t", "o", "r", "n", "a", "m", "e", "{">> \o input \o <<"}">>
        /\ input = <<"s", "i", "n">> => output = <<"\\", "s", "i", "n">>
        /\ input = <<"l", "o", "g">> => output = <<"\\", "l", "o", "g">>
        /\ input = <<"c", "u", "s", "t", "o", "m">> => output = <<"\\", "o", "p", "e", "r", "a", "t", "o", "r", "n", "a", "m", "e", "{", "c", "u", "s", "t", "o", "m", "}">>

\* The invisible formatting characters: zero-width space, zero-width
\* non-joiner, zero-width joiner, word joiner, byte-order mark.
InvisibleFive == {"U+200B", "U+200C", "U+200D", "U+2060", "U+FEFF"}

\* The tables the combined table is made of.
CombinedTables == {GREEK_LOWER, GREEK_UPPER, OPERATORS, SUPERSCRIPTS, SUBSCRIPTS}

\* C13: map_char is total with three disjoint cases: each of the five
\* invisible characters maps to the empty string; each glyph registered in one
\* of the tables maps to the token registered for it (alpha to \alpha, Gamma to
\* \Gamma, the times sign to \times, less-or-equal to \leq); every other
\* character is returned unchanged.
C13_MapCharCases ==
    op = "map_char" =>
        LET c == input[1]
            registered == \E T \in CombinedTables : c \in DOMAIN T
        IN  /\ output \in Seq(STRING)
            /\ ~(c \in InvisibleFive /\ registered)
            /\ c \in InvisibleFive => output = <<>>
            /\ \A T \in CombinedTables : c \in DOMAIN T => output = T[c]
            /\ (c \notin InvisibleFive /\ ~registered) => output = <<c>>
            /\ c = "U+03B1" => output = <<"\\", "a", "l", "p", "h", "a">>
            /\ c = "U+0393" => output = <<"\\", "G", "a", "m", "m", "a">>
            /\ c = "U+00D7" => output = <<"\\", "t", "i", "m", "e", "s">>
            /\ c = "U+2264" => output = <<"\\", "l", "e", "q">>

\* C13 happens: map_char was given the zero-width space and returned the empty
\* string.
C13_Witness ==
    /\ op = "map_char"
    /\ input = <<"U+200B">>
    /\ output = <<>>

(***************************************************************************)
(* converter.py: MathConverter                                             *)
(***************************************************************************)
\* sub in s
str_in(sub, s) ==
    \E k \in 0..(Len(s) - Len(sub)) : SubSeq(s, k + 1, k + Len(sub)) = sub

\* s.split(): the words of s between runs of white space; word is the word
\* being read at position i.
RECURSIVE split_loop(_, _, _, _)
split_loop(s, i, word, words) ==
    IF i > Len(s) THEN (IF word = <<>> THEN words ELSE Append(words, word))
    ELSE IF isspace(s[i])
         THEN split_loop(s, i + 1, <<>>, IF word = <<>> THEN words ELSE Append(words, word))
         ELSE split_loop(s, i + 1, Append(word, s[i]), words)

split(s) == split_loop(s, 1, <<>>, <<>>)

\* _clean_latex: while "{}" in latex: latex = latex.replace("{}", "")
RECURSIVE remove_empty_groups(_)
remove_empty_groups(latex) ==
    IF str_in(<<"{", "}">>, latex) THEN remove_empty_groups(remove_all(latex, <<"{", "}">>)) ELSE latex

\* The position after the run of white space (\s+, greedy) that starts at i.
ws_end(s, i) ==
    CHOOSE j \in i..(Len(s) + 1) :
        /\ \A k \in i..(j - 1) : isspace(s[k])
        /\ (j = Len(s) + 1 \/ ~isspace(s[j]))

\* re.sub(r"\s+([+\-=])\s+", r" \1 ", latex): the scan from position i
RECURSIVE sub_operator_spacing(_, _)
sub_operator_spacing(s, i) ==
    IF i > Len(s) THEN <<>>
    ELSE LET j == ws_end(s, i)
         IN  IF /\ j > i
                /\ j + 1 <= Len(s)
                /\ s[j] \in {"+", "-", "="}
                /\ isspace(s[j + 1])
             THEN <<" ", s[j], " ">> \o sub_operator_spacing(s, ws_end(s, j + 1))
             ELSE <<s[i]>> \o sub_operator_spacing(s, i + 1)

\* re.sub(r"\{\s+", "{", latex): the scan from position i
RECURSIVE sub_after_open_brace(_, _)
sub_after_open_brace(s, i) ==
    IF i > Len(s) THEN <<>>
    ELSE IF s[i] = "{" /\ i + 1 <= Len(s) /\ isspace(s[i + 1])
         THEN <<"{">> \o sub_after_open_brace(s, ws_end(s, i + 1))
         ELSE <<s[i]>> \o sub_after_open_brace(s, i + 1)

\* re.sub(r"\s+\}", "}", latex): the scan from position i
RECURSIVE sub_before_close_brace(_, _)
sub_before_close_brace(s, i) ==
    IF i > Len(s) THEN <<>>
    ELSE LET j == ws_end(s, i)
         IN  IF j > i /\ j <= Len(s) /\ s[j] = "}"
             THEN <<"}">> \o sub_before_close_brace(s, j + 1)
             ELSE <<s[i]>> \o sub_before_close_brace(s, i + 1)

\* MathConverter._clean_latex
clean_latex(latex) ==
    LET words == sep_join(<<" ">>, split(latex))
        no_empty == remove_empty_groups(words)
        spaced == sub_operator_spacing(no_empty, 1)
        opened == sub_after_open_brace(spaced, 1)
        closed == sub_before_close_brace(opened, 1)
    IN  strip(closed)

\* A math block whose omml_xml is not well-formed XML: etree.fromstring raises
\* on it, so no tree exists; this value stands for such a text.
Malformed == [tag |-> "#malformed", val |-> <<>>, text |-> <<>>, kids |-> <<>>]

\* The element nesting depth beyond which the recursion _convert_element ->
\* handler -> _process_children exhausts the interpreter's call stack and
\* raises RecursionError.
MaxDepth == 6

\* The nesting depth of an element tree.
RECURSIVE depth(_)
depth(elem) ==
    IF elem.kids = <<>> THEN 1
    ELSE 1 + (CHOOSE d \in {depth(elem.kids[i]) : i \in 1..Len(elem.kids)} :
                  \A i \in 1..Len(elem.kids) : depth(elem.kids[i]) <= d)

\* The try block of OmmlParser.parse raises: fromstring on malformed XML, or a
\* handler on a tree too deep for the call stack.
parse_raises(omml_xml) == omml_xml = Malformed \/ depth(omml_xml) > MaxDepth

\* parse that lets the exception of its try block escape: the call has no
\* return value.
parse_uncaught(omml_xml) ==
    IF parse_raises(omml_xml)
    THEN [raised |-> TRUE, latex |-> <<>>, warnings |-> <<>>]
    ELSE [raised |-> FALSE, latex |-> convert_element(omml_xml), warnings |-> <<>>]

\* OmmlParser.parse: the LaTeX string returned and the warnings logged.
parse(omml_xml) ==
    IF parse_raises(omml_xml)
    THEN [raised |-> FALSE, latex |-> <<>>, warnings |-> <<"OMML parse error">>]
    ELSE [raised |-> FALSE, latex |-> convert_element(omml_xml), warnings |-> <<>>]

\* ConversionContext.require_package(package), no options
require_package(required_packages, package) ==
    required_packages \cup {<<"{">> \o package \o <<"}">>}

\* MathConverter.do_convert without the package mathtools.
do_convert_two_packages(element, context) ==
    LET packages == require_package(require_package(context.required_packages,
                        <<"a", "m", "s", "m", "a", "t", "h">>), <<"a", "m", "s", "s", "y", "m", "b">>)
        parsed == parse(element.omml_xml)
        latex_content == clean_latex(parsed.latex)
    IN  [ raised |-> FALSE,
          result |-> [ok |-> TRUE,
                      value |-> IF element.math_type = "DISPLAY"
                                THEN <<"\\", "[", "\n">> \o latex_content \o <<"\n", "\\", "]">>
                                ELSE IF element.math_type = "EQUATION"
                                THEN <<"\\", "b", "e", "g", "i", "n", "{", "e", "q", "u", "a", "t", "i", "o", "n", "}">> \o <<"\n">> \o latex_content
                                         \o <<"\n">> \o <<"\\", "e", "n", "d", "{", "e", "q", "u", "a", "t", "i", "o", "n", "}">>
                                ELSE <<"$">> \o latex_content \o <<"$">>],
          latex |-> latex_content,
          required_packages |-> packages,
          warnings |-> parsed.warnings ]

\* MathConverter.do_convert: the Result returned (ok TRUE for Ok), the latex
\* stored in the element, the packages of the context after the call and the
\* warnings logged; raised tells whether an exception left the call.
do_convert(element, context) ==
    LET packages == require_package(require_package(require_package(
                        context.required_packages, <<"a", "m", "s", "m", "a", "t", "h">>), <<"a", "m", "s", "s", "y", "m", "b">>), <<"m", "a", "t", "h", "t", "o", "o", "l", "s">>)
        parsed == parse(element.omml_xml)
        latex_content == clean_latex(parsed.latex)
    IN  [ raised |-> parsed.raised,
          result |-> [ok |-> TRUE,
                      value |-> IF element.math_type = "INLINE"
                                THEN <<"$">> \o latex_content \o <<"$">>
                                ELSE IF element.math_type = "DISPLAY"
                                THEN <<"\\", "[", "\n">> \o latex_content \o <<"\n", "\\", "]">>
                                ELSE IF element.math_type = "EQUATION"
                                THEN <<"\\", "b", "e", "g", "i", "n", "{", "e", "q", "u", "a", "t", "i", "o", "n", "}">> \o <<"\n">> \o latex_content
                                         \o <<"\n">> \o <<"\\", "e", "n", "d", "{", "e", "q", "u", "a", "t", "i", "o", "n", "}">>
                                ELSE <<"$">> \o latex_content \o <<"$">>],
          latex |-> latex_content,
          required_packages |-> packages,
          warnings |-> parsed.warnings ]

(***************************************************************************)
(* Calls of MathConverter.do_convert                                       *)
(***************************************************************************)
\* n superscripts nested in each other's base, over the run x.
RECURSIVE Nested(_)
Nested(n) ==
    IF n = 0 THEN Run(<<"x">>)
    ELSE Elem("sSup", <<Elem("e", <<Nested(n - 1)>>), Elem("sup", <<Run(<<"2">>)>>)>>)

\* Trees whose text holds white space the cleanup rewrites.
SpacedTrees ==
    {Elem("oMath", <<Run(t)>>) :
        t \in {<<"a", " ", " ", "b">>, <<"a", "\t", "b">>, <<" ", "a">>, <<"a", " ", "+", " ", "b">>, <<"a", " ", "+", " ", " ", "b">>, <<" ">>}}
        \cup {Elem("sSup", <<Elem("e", <<Run(<<"x">>)>>), Elem("sup", <<Run(t)>>)>>) : t \in {<<" ", "2", " ">>, <<" ">>}}

MathBlocks ==
    [omml_xml : Trees \cup SpacedTrees \cup {Malformed} \cup {Nested(n) : n \in 1..4},
     math_type : {"INLINE", "DISPLAY", "EQUATION"}]
Contexts == [required_packages : {{}, {<<"{", "g", "r", "a", "p", "h", "i", "c", "x", "}">>, <<"{", "a", "m", "s", "m", "a", "t", "h", "}">>}}]

InitConvert ==
    /\ op = "none"
    /\ input \in [element : MathBlocks, context : Contexts]
    /\ output = <<>>

DoConvert ==
    /\ op = "none"
    /\ op' = "do_convert"
    /\ output' = do_convert(input.element, input.context)
    /\ UNCHANGED input

NextConvert == DoConvert
SpecConvert == InitConvert /\ [][NextConvert]_vars

\* C15: Failure containment.  When the math XML cannot be parsed or a handler
\* fails during the walk (recursion-depth overflow on a very deep tree
\* included), the failure stays in that math block: no exception leaves
\* do_convert, a warning is reported, the math fragment is empty and the result
\* is a success (never an Err); and no call at all raises or returns an Err.
C15_FailureContainment ==
    op = "do_convert" =>
        /\ ~output.raised
        /\ output.result.ok
        /\ (input.element.omml_xml = Malformed \/ depth(input.element.omml_xml) > MaxDepth)
               => /\ Len(output.warnings) = 1
                  /\ output.latex = <<>>
                  /\ input.element.math_type = "INLINE" => output.result.value = <<"$", "$">>

\* C15 happens: a tree too deep for the call stack was given to do_convert,
\* which returned the empty inline fragment.
C15_Witness ==
    /\ op = "do_convert"
    /\ input.element.omml_xml = Nested(4)
    /\ output.result = [ok |-> TRUE, value |-> <<"$", "$">>]

\* s in the delimiters of the math mode.
Wrapped(math_type, s) ==
    CASE math_type = "INLINE" -> <<"$">> \o s \o <<"$">>
      [] math_type = "DISPLAY" -> <<"\\", "[", "\n">> \o s \o <<"\n", "\\", "]">>
      [] math_type = "EQUATION" ->
             <<"\\", "b", "e", "g", "i", "n", "{", "e", "q", "u", "a", "t", "i", "o", "n", "}">> \o <<"\n">> \o s \o <<"\n">> \o <<"\\", "e", "n", "d", "{", "e", "q", "u", "a", "t", "i", "o", "n", "}">>

\* The packages do_convert registers.
MathPackages == {<<"{", "a", "m", "s", "m", "a", "t", "h", "}">>, <<"{", "a", "m", "s", "s", "y", "m", "b", "}">>, <<"{", "m", "a", "t", "h", "t", "o", "o", "l", "s", "}">>}

\* C16 as stated: do_convert returns Ok of the string s the transpiler
\* produced for the block, in the delimiters of the block's math mode, and
\* registers amsmath, amssymb and mathtools on every call.
C16_CallerWrappingAsStated ==
    op = "do_convert" =>
        /\ output.result =
               [ok |-> TRUE,
                value |-> Wrapped(input.element.math_type, parse(input.element.omml_xml).latex)]
        /\ output.required_packages = input.context.required_packages \cup MathPackages

\* C16: do_convert returns Ok of the string s the transpiler produced for the
\* block (empty when transpiling failed) after the cleanup _clean_latex, in the
\* delimiters of the block's math mode: $..$ for inline, \[ newline .. newline
\* \] for display, \begin{equation} newline .. newline \end{equation} for a
\* numbered equation; and every call registers amsmath, amssymb and mathtools
\* in the context, whatever the formula holds.
C16_CallerWrapping ==
    op = "do_convert" =>
        /\ output.result =
               [ok |-> TRUE,
                value |-> Wrapped(input.element.math_type,
                                  clean_latex(parse(input.element.omml_xml).latex))]
        /\ output.required_packages = input.context.required_packages \cup MathPackages

\* C16 happens: the display block of the fraction a over b was converted.
C16_Witness ==
    /\ op = "do_convert"
    /\ input.element = [omml_xml |-> Elem("oMath", <<FracAB>>), math_type |-> "DISPLAY"]
    /\ output.result.value = <<"\\", "[", "\n">> \o <<"\\", "f", "r", "a", "c", "{", "a", "}", "{", "b", "}">> \o <<"\n", "\\", "]">>
    /\ MathPackages \subseteq output.required_packages

(***************************************************************************)
(* Concurrent calls of OmmlParser.parse through one parser instance.  A    *)
(* call walks the children of its root in _process_children; another call  *)
(* may run between any two of its steps.                                    *)
(***************************************************************************)
\* Number of concurrent calls.
NumCalls == 2
Calls == 1..NumCalls

\* Roots of the trees given to the concurrent calls.
ParallelSiblings == {Run(<<"U+03B1">>), Run(<<"b">>), Run(<<>>)}
ParallelRoots ==
    {Elem("oMath", kids) : kids \in UNION {[1..k -> ParallelSiblings] : k \in 1..2}}

\* All calls keep their list `parts` in one place, as an attribute of the
\* shared parser would be.
frame_on_instance(call) == 1

\* Where call keeps the local variables of _process_children (parts): in its
\* own frame.
frame(call) == call

InitParallel ==
    /\ op = "none"
    /\ input \in [Calls -> ParallelRoots]
    /\ output = [pc |-> [c \in Calls |-> "start"],
                 i |-> [c \in Calls |-> 0],
                 parts |-> [f \in Calls |-> <<>>],
                 result |-> [c \in Calls |-> <<>>],
                 symbols |-> symbol_map]

\* parse -> _convert_element(root) -> _handle_omath -> _process_children:
\* parts = []
ParseBegin(call) ==
    /\ output.pc[call] = "start"
    /\ op' = "parse"
    /\ output' = [output EXCEPT !.pc[call] = "loop", !.i[call] = 1,
                                !.parts[frame(call)] = <<>>]
    /\ UNCHANGED input

\* One round of `for child in elem`: result = self._convert_element(child);
\* if result: parts.append(result)
ProcessChild(call) ==
    /\ output.pc[call] = "loop"
    /\ output.i[call] <= Len(input[call].kids)
    /\ LET result == convert_element(input[call].kids[output.i[call]])
       IN  output' = [output EXCEPT
                         !.i[call] = @ + 1,
                         !.parts[frame(call)] = IF result # <<>> THEN Append(@, result) ELSE @]
    /\ op' = "parse"
    /\ UNCHANGED input

\* return self._join_with_spacing(parts), returned by parse
ParseReturn(call) ==
    /\ output.pc[call] = "loop"
    /\ output.i[call] > Len(input[call].kids)
    /\ output' = [output EXCEPT !.pc[call] = "done",
                                !.result[call] = join_with_spacing(output.parts[frame(call)])]
    /\ op' = "parse"
    /\ UNCHANGED input

NextParallel ==
    \E call \in Calls : ParseBegin(call) \/ ProcessChild(call) \/ ParseReturn(call)
SpecParallel == InitParallel /\ [][NextParallel]_vars

\* C14: Statelessness under concurrency.  The calls write nothing that
\* outlives them (the symbol table of the shared parser stays as constructed),
\* so under every interleaving each call returns the string it returns when
\* run alone, and calls on the same tree return the same string.
C14_Stateless ==
    op = "parse" =>
        /\ output.symbols = symbol_map
        /\ \A c \in Calls :
               output.pc[c] = "done" => output.result[c] = convert_element(input[c])
        /\ \A c, d \in Calls :
               (output.pc[c] = "done" /\ output.pc[d] = "done" /\ input[c] = input[d])
                   => output.result[c] = output.result[d]

\* C14 happens: two calls on different trees have both returned, each after
\* the other had started.
C14_Witness ==
    /\ op = "parse"
    /\ \A c \in Calls : output.pc[c] = "done"
    /\ input[1] = Elem("oMath", <<Run(<<"U+03B1">>), Run(<<"b">>)>>)
    /\ input[2] = Elem("oMath", <<Run(<<>>), Run(<<"b">>)>>)
    /\ output.result[1] = <<"\\", "a", "l", "p", "h", "a", " ", "b">>
    /\ output.result[2] = <<"b">>

\* The direct children of elem with the tag, in document order.
DirectChildren(elem, tag) == SelectSeq(elem.kids, LAMBDA k : k.tag = tag)

\* The fragments of the direct content groups of a delimiter, joined by the
\* separator glyph if there is one.
GroupsContent(elem) ==
    LET groups == DirectChildren(elem, "e")
        fragments == [i \in 1..Len(groups) |-> process_children(groups[i])]
        sep == GlyphOf(elem, "sepChr", <<>>)
    IN  IF sep # <<>> THEN sep_join(sep, fragments) ELSE join(fragments)

\* C17: Delimiter content groups.  Between \left and \right stands the
\* fragment of each direct content group (e child) of the delimiter, once and
\* in document order, joined by the separator glyph if one is specified and
\* concatenated otherwise; a content slot of a node nested inside a group (the
\* base of a superscript inside the brackets) adds no further copy.
C17_DelimiterGroups ==
    (op = "convert_element" /\ input.tag = "d") =>
        LET left == LeftGlyph(GlyphOf(input, "begChr", <<"(">>))
            right == RightGlyph(GlyphOf(input, "endChr", <<")">>))
            content == GroupsContent(input)
        IN  /\ output = IF left # <<>> \/ right # <<>>
                        THEN <<"\\", "l", "e", "f", "t">> \o left \o <<" ">> \o content \o <<" ", "\\", "r", "i", "g", "h", "t">> \o right
                        ELSE content
            /\ input = Elem("d", <<Elem("e", <<SupX2>>)>>) => output = <<"\\", "l", "e", "f", "t", "(", " ", "x", "^", "{", "2", "}", " ", "\\", "r", "i", "g", "h", "t", ")">>

\* The fragments of the direct children of elem with the tag.
DirectFragments(elem, tag) ==
    LET groups == DirectChildren(elem, tag)
    IN  [i \in 1..Len(groups) |-> process_children(groups[i])]

\* C18: Matrix and EquationArray structure.  A Matrix emits one row per row
\* group (mr child) and in a row one cell per cell group (e child of the row),
\* cells joined with " & " and rows with " \\ " inside a matrix environment;
\* an EquationArray emits one row per top-level content group inside an
\* aligned environment.  Rows and content slots of nodes nested inside a cell
\* or group add no rows or cells.
C18_MatrixStructure ==
    /\ (op = "convert_element" /\ input.tag = "m") =>
           LET mrs == DirectChildren(input, "mr")
               rows == [i \in 1..Len(mrs) |-> sep_join(<<" ", "&", " ">>, DirectFragments(mrs[i], "e"))]
           IN  output = <<"\\", "b", "e", "g", "i", "n", "{", "m", "a", "t", "r", "i", "x", "}", " ">> \o sep_join(<<" ", "\\", "\\", " ">>, rows) \o <<" ", "\\", "e", "n", "d", "{", "m", "a", "t", "r", "i", "x", "}">>
    /\ (op = "convert_element" /\ input.tag = "eqArr") =>
           output = <<"\\", "b", "e", "g", "i", "n", "{", "a", "l", "i", "g", "n", "e", "d", "}", " ">> \o sep_join(<<" ", "\\", "\\", " ">>, DirectFragments(input, "e"))
                        \o <<" ", "\\", "e", "n", "d", "{", "a", "l", "i", "g", "n", "e", "d", "}">>

\* a ends in a command token made of letters (\alpha, \in).
EndsInLetterCommand(a) ==
    \E k \in 1..(Len(a) - 1) : a[k] = "\\" /\ \A j \in (k + 1)..Len(a) : isalpha(a[j])

\* The fragments of a list of sibling elements, the empty ones dropped.
SiblingFragments(elems) ==
    SelectSeq([i \in 1..Len(elems) |-> convert_element(elems[i])], LAMBDA f : f # <<>>)

\* Two adjacent fragments, the first ending in a letter command and the second
\* starting with a letter, stand in s with nothing between them.
Fused(frags, s) ==
    \E i \in 1..(Len(frags) - 1) :
        /\ EndsInLetterCommand(frags[i])
        /\ isalpha(frags[i + 1][1])
        /\ Contains(s, frags[i] \o frags[i + 1])

\* C19: No command/letter fusion between siblings.  Wherever the fragments of
\* sibling nodes are concatenated (the children of a root or of a node without
\* a handler, and the content groups of a Delimiter that has no separator), a
\* fragment ending in a letter-ending command is never directly followed by a
\* sibling fragment that starts with a letter.
C19_NoSiblingFusion ==
    op = "convert_element" =>
        /\ input.tag \notin (HandledTags \ {"oMath"})
               => ~Fused(SiblingFragments(input.kids), output)
        /\ (input.tag = "d" /\ GlyphOf(input, "sepChr", <<>>) = <<>>)
               => ~Fused(SelectSeq(DirectFragments(input, "e"), LAMBDA f : f # <<>>), output)

\* C20: No command/letter fusion inside a text run.  In the output of
\* map_text a letter-ending command token is never directly followed by a
\* letter that comes from a later character of the text, also when invisible
\* characters (which map to the empty string) stand between the two: alpha,
\* zero-width space, p gives the command and the letter with a space between.
C20_NoFusionInRun ==
    op = "map_text" =>
        /\ \A i \in 1..Len(input) : \A j \in (i + 1)..Len(input) :
               (/\ IsLetterEndingCommand(map_char(input[i]))
                /\ \A k \in (i + 1)..(j - 1) : map_char(input[k]) = <<>>
                /\ map_char(input[j]) # <<>>
                /\ isalpha(map_char(input[j])[1]))
               => ~Contains(output, map_char(input[i]) \o map_char(input[j]))
        /\ input = <<"U+03B1", "U+200B", "p">> => output = <<"\\", "a", "l", "p", "h", "a", " ", "p">>

\* A character the Style Applicator emits outside any wrapper: its mapped form
\* is a command token, or the character is not alphabetic.
BreaksSpan(c) == startswith_backslash(map_char(c)) \/ ~isalpha(c)

\* The number of characters at the start of text that do not break the span.
SpanLength(text) ==
    CHOOSE n \in 0..Len(text) :
        /\ \A k \in 1..n : ~BreaksSpan(text[k])
        /\ (n = Len(text) \/ BreaksSpan(text[n + 1]))

\* The fragments of a styled text: every maximal run of buffered letters in
\* the wrapper, every other character as its mapped form, in the order of the
\* text.
RECURSIVE StyledFragments(_, _, _)
StyledFragments(text, prefix, suffix) ==
    IF text = <<>> THEN <<>>
    ELSE IF BreaksSpan(text[1])
         THEN <<map_char(text[1])>> \o StyledFragments(Tail(text), prefix, suffix)
         ELSE LET n == SpanLength(text)
              IN  <<prefix \o SubSeq(text, 1, n) \o suffix>>
                      \o StyledFragments(SubSeq(text, n + 1, Len(text)), prefix, suffix)

\* C21: Style Applicator buffering.  The text is walked in order; a character
\* whose mapped form is a command token, or which is not alphabetic, flushes
\* the pending letters as prefix + letters + suffix (if there are any) and is
\* emitted as its mapped form outside any wrapper; every other character is
\* buffered; a last flush happens at the end.  So every maximal run of
\* buffered letters is wrapped exactly once, no empty wrapper is emitted, and
\* the fragments are joined by the Spacing Policy.
C21_StyleBuffering ==
    op = "apply_style_smartly" =>
        /\ output = SpacedConcat(StyledFragments(input.text, input.prefix, input.suffix))
        /\ ~Contains(output, input.prefix \o input.suffix)

\* C21 happens: R + p was styled double-struck, the two letters wrapped
\* separately and the plus sign left outside.
C21_Witness ==
    /\ op = "apply_style_smartly"
    /\ input.text = <<"R", "+", "p">>
    /\ input.prefix = <<"\\", "m", "a", "t", "h", "b", "b", "{">>
    /\ output = <<"\\", "m", "a", "t", "h", "b", "b", "{", "R", "}", "+", "\\", "m", "a", "t", "h", "b", "b", "{", "p", "}">>

\* The position of the brace that closes the group opened before position j,
\* open counting the groups still open; 0 if the group is never closed.
RECURSIVE GroupClose(_, _, _)
GroupClose(s, j, open) ==
    IF j > Len(s) THEN 0
    ELSE IF s[j] = "}" THEN (IF open = 1 THEN j ELSE GroupClose(s, j + 1, open - 1))
    ELSE IF s[j] = "{" THEN GroupClose(s, j + 1, open + 1)
    ELSE GroupClose(s, j + 1, open)

\* n brace groups stand in s one after the other from position k on.
RECURSIVE HasArguments(_, _, _)
HasArguments(s, k, n) ==
    IF n = 0 THEN TRUE
    ELSE /\ k <= Len(s)
         /\ s[k] = "{"
         /\ GroupClose(s, k + 1, 1) > 0
         /\ HasArguments(s, GroupClose(s, k + 1, 1) + 1, n - 1)

\* The command cmd stands in s at position p as a whole token.
CommandAt(s, p, cmd) ==
    /\ p + Len(cmd) - 1 <= Len(s)
    /\ SubSeq(s, p, p + Len(cmd) - 1) = cmd
    /\ (p + Len(cmd) <= Len(s) => ~isalpha(s[p + Len(cmd)]))

\* The commands that take two brace arguments and those that take one.
TwoArgumentCommands == {<<"\\", "f", "r", "a", "c">>, <<"\\", "d", "f", "r", "a", "c">>, <<"\\", "b", "i", "n", "o", "m">>}
OneArgumentCommands ==
    {<<"\\", "s", "q", "r", "t">>, <<"\\", "b", "o", "x", "e", "d">>, <<"\\", "p", "h", "a", "n", "t", "o", "m">>}
        \cup {accent_map_wide[g] : g \in DOMAIN accent_map_wide}
        \cup {accent_map_narrow[g] : g \in DOMAIN accent_map_narrow}

\* The position after an optional argument [..] that starts at k.
AfterOptional(s, k) ==
    IF k <= Len(s) /\ s[k] = "[" /\ \E j \in k..Len(s) : s[j] = "]"
    THEN (CHOOSE j \in k..Len(s) : s[j] = "]" /\ \A i \in k..(j - 1) : s[i] # "]") + 1
    ELSE k

\* The command tokens (a backslash and the letters after it) of s, in order.
RECURSIVE CommandTokens(_)
CommandTokens(s) ==
    IF s = <<>> THEN <<>>
    ELSE IF s[1] = "\\" /\ Len(s) > 1 /\ isalpha(s[2])
         THEN LET n == CHOOSE n \in 2..Len(s) :
                           /\ \A k \in 2..n : isalpha(s[k])
                           /\ (n = Len(s) \/ ~isalpha(s[n + 1]))
              IN  <<SubSeq(s, 1, n)>> \o CommandTokens(SubSeq(s, n + 1, Len(s)))
         ELSE CommandTokens(Tail(s))

\* C22: Cleanup preserves argument structure.  In the string do_convert
\* wraps, for every tree (missing and empty slots included), each \frac, \dfrac
\* and \binom keeps two brace arguments, each \sqrt, \boxed, \phantom, accent,
\* _ and ^ keeps its brace argument, and the cleanup fuses no command with the
\* text after it: the command tokens are those of the transpiled string.
C22_CleanupKeepsArguments ==
    op = "do_convert" =>
        LET s == parse(input.element.omml_xml).latex
            c == output.latex
        IN  /\ CommandTokens(c) = CommandTokens(s)
            /\ \A p \in 1..Len(c) :
                   /\ \A cmd \in TwoArgumentCommands :
                          CommandAt(c, p, cmd) => HasArguments(c, p + Len(cmd), 2)
                   /\ \A cmd \in OneArgumentCommands :
                          CommandAt(c, p, cmd)
                              => HasArguments(c, AfterOptional(c, p + Len(cmd)), 1)
                   /\ (c[p] \in {"_", "^"} /\ (p = 1 \/ c[p - 1] # "\\"))
                          => HasArguments(c, p + 1, 1)

\* r is a sequence of complete brace groups and nothing else.
RECURSIVE AllGroups(_)
AllGroups(r) ==
    \/ r = <<>>
    \/ /\ r[1] = "{"
       /\ GroupClose(r, 2, 1) > 0
       /\ AllGroups(SubSeq(r, GroupClose(r, 2, 1) + 1, Len(r)))

\* A base that is one atom: a single character, or a single command token
\* with the brace arguments that follow it directly.
IsAtom(base) ==
    \/ Len(base) = 1
    \/ /\ CommandTokens(base) # <<>>
       /\ LET token == CommandTokens(base)[1]
          IN  /\ SubSeq(base, 1, Len(token)) = token
              /\ AllGroups(SubSeq(base, Len(token) + 1, Len(base)))

\* C23: Script scope.  For Subscript, Superscript and SubSup, a base fragment
\* of more than one atom is enclosed in braces before _{..} / ^{..} is
\* appended, also when it begins with a command and goes on with further
\* symbols (a Greek letter followed by another letter).
C23_ScriptScope ==
    (/\ op = "convert_element"
     /\ input.tag \in {"sSub", "sSup", "sSubSup"}
     /\ slot_latex(input, "e") # <<>>
     /\ ~IsAtom(slot_latex(input, "e")))
        => LET braced == <<"{">> \o slot_latex(input, "e") \o <<"}">>
           IN  /\ SubSeq(output, 1, Len(braced)) = braced
               /\ Len(output) > Len(braced)
               /\ output[Len(braced) + 1] \in {"_", "^"}

\* The tokens LaTeX accepts after \left and \right: bracket characters, the
\* escaped braces, the named delimiter commands and the null delimiter.
DelimiterTokens ==
    { <<"(">>, <<")">>, <<"[">>, <<"]">>, <<"|">>, <<"<">>, <<">">>, <<"/">>, <<".">>,
      <<"\\", "{">>, <<"\\", "}">>, <<"\\", "|">>, <<"\\", "l", "a", "n", "g", "l", "e">>, <<"\\", "r", "a", "n", "g", "l", "e">>, <<"\\", "l", "c", "e", "i", "l">>, <<"\\", "r", "c", "e", "i", "l">>,
      <<"\\", "l", "f", "l", "o", "o", "r">>, <<"\\", "r", "f", "l", "o", "o", "r">> }

\* s starts with pre / ends with post.
StartsWith(s, pre) == Len(s) >= Len(pre) /\ SubSeq(s, 1, Len(pre)) = pre
EndsWith(s, post) ==
    Len(s) >= Len(post) /\ SubSeq(s, Len(s) - Len(post) + 1, Len(s)) = post

\* C24: Well-formed auto-sizing pair.  Whenever a Delimiter emits \left and
\* \right, each is directly followed by a delimiter token (a bracket character,
\* an escaped brace, a named delimiter command or the null delimiter "."), for
\* every combination of begin and end glyphs: one of them empty, or a glyph the
\* table of its side does not list.
C24_WellFormedPair ==
    (op = "convert_element" /\ input.tag = "d" /\ StartsWith(output, <<"\\", "l", "e", "f", "t">>)) =>
        /\ \E t \in DelimiterTokens : StartsWith(output, <<"\\", "l", "e", "f", "t">> \o t \o <<" ">>)
        /\ \E t \in DelimiterTokens : EndsWith(output, <<" ", "\\", "r", "i", "g", "h", "t">> \o t)

\* The value of a run's style attribute (scr or sty): the m:val of the
\* property under rPr, empty when the property or its value is absent.
RunAttribute(elem, name) ==
    IF \E i \in 1..Len(elem.kids) : elem.kids[i].tag = "rPr"
    THEN LET rpr == get_element(elem, "rPr")
         IN  IF \E i \in 1..Len(rpr.kids) : rpr.kids[i].tag = name /\ rpr.kids[i].val # <<>>
             THEN get_element(rpr, name).val[1]
             ELSE <<>>
    ELSE <<>>

\* The wrapper command a script-kind value selects, empty for any other value.
ScriptWrapper(v) ==
    IF v = <<"s", "c", "r", "i", "p", "t">> THEN <<"\\", "m", "a", "t", "h", "c", "a", "l", "{">>
    ELSE IF v = <<"f", "r", "a", "k", "t", "u", "r">> THEN <<"\\", "m", "a", "t", "h", "f", "r", "a", "k", "{">>
    ELSE IF v = <<"d", "o", "u", "b", "l", "e", "-", "s", "t", "r", "u", "c", "k">> THEN <<"\\", "m", "a", "t", "h", "b", "b", "{">>
    ELSE IF v = <<"s", "a", "n", "s", "-", "s", "e", "r", "i", "f">> THEN <<"\\", "m", "a", "t", "h", "s", "f", "{">>
    ELSE IF v = <<"m", "o", "n", "o", "s", "p", "a", "c", "e">> THEN <<"\\", "m", "a", "t", "h", "t", "t", "{">>
    ELSE <<>>

\* The wrapper command a weight-kind value selects, empty for any other value.
WeightWrapper(v) ==
    IF v = <<"b">> THEN <<"\\", "m", "a", "t", "h", "b", "f", "{">>
    ELSE IF v = <<"i">> THEN <<"\\", "m", "a", "t", "h", "i", "t", "{">>
    ELSE IF v = <<"b", "i">> THEN <<"\\", "b", "o", "l", "d", "s", "y", "m", "b", "o", "l", "{">>
    ELSE <<>>

\* The one wrapper of a run: the script wrapper, or else the weight wrapper.
RunWrapper(elem) ==
    IF ScriptWrapper(RunAttribute(elem, "scr")) # <<>>
    THEN ScriptWrapper(RunAttribute(elem, "scr"))
    ELSE WeightWrapper(RunAttribute(elem, "sty"))

\* A recognized function name: a name of the fixed set, in any letter case.
Recognized(name) == \E f \in FUNCTION_NAMES : lower(f) = lower(name)

\* C25: Run style selection.  A run chooses at most one wrapper, the script
\* wrapper before the weight wrapper; a run whose whole text is a recognized
\* function name emits the function's command, inside the wrapper if there is
\* one; any other run goes through the Style Applicator when it has a wrapper
\* and through map_text when it has none.
C25_RunStyleSelection ==
    (op = "convert_element" /\ input.tag = "r") =>
        LET prefix == RunWrapper(input)
            text == get_text(input)
        IN  IF Recognized(text)
            THEN output = (IF prefix # <<>> THEN prefix \o get_function_latex(text) \o <<"}">>
                                           ELSE get_function_latex(text))
            ELSE IF prefix # <<>>
                 THEN output = apply_style_smartly(text, prefix, <<"}">>)
                 ELSE output = map_text(text)

\* The command of an n-ary operator glyph: the glyph's entry in the operator
\* table, the glyph itself when the table does not list it.
NaryCommand(glyph) ==
    IF Len(glyph) = 1 /\ glyph[1] \in DOMAIN NARY_OPERATORS THEN NARY_OPERATORS[glyph[1]] ELSE glyph

\* The operator glyph of an n-ary node: the m:val of chr under naryPr, the
\* integral sign when no glyph is specified.
NaryGlyph(elem) ==
    IF \E i \in 1..Len(elem.kids) : elem.kids[i].tag = "naryPr"
    THEN LET narypr == get_element(elem, "naryPr")
         IN  IF \E i \in 1..Len(narypr.kids) : narypr.kids[i].tag = "chr" /\ narypr.kids[i].val # <<>>
             THEN get_element(narypr, "chr").val[1]
             ELSE <<"U+222B">>
    ELSE <<"U+222B">>

\* An n-ary node without its limit-location property.
WithoutLimLoc(elem) ==
    [elem EXCEPT !.kids =
        [i \in 1..Len(elem.kids) |->
            IF elem.kids[i].tag = "naryPr"
            THEN [elem.kids[i] EXCEPT !.kids = SelectSeq(elem.kids[i].kids, LAMBDA k : k.tag # "limLoc")]
            ELSE elem.kids[i]]]

\* C26: NaryOp.  The node emits the command of its operator glyph (the
\* integral command when no glyph is specified, an unknown glyph unchanged),
\* then _{sub} only if the lower limit is non-empty, then ^{sup} only if the
\* upper limit is non-empty, then exactly one space, then the base; nodes that
\* differ only in the limit-location mode give the same output.
C26_NaryOp ==
    (op = "convert_element" /\ input.tag = "nary") =>
        LET sub == slot_latex(input, "sub")
            sup == slot_latex(input, "sup")
        IN  /\ output = NaryCommand(NaryGlyph(input))
                            \o (IF sub # <<>> THEN <<"_", "{">> \o sub \o <<"}">> ELSE <<>>)
                            \o (IF sup # <<>> THEN <<"^", "{">> \o sup \o <<"}">> ELSE <<>>)
                            \o <<" ">> \o slot_latex(input, "e")
            /\ \A other \in Narys :
                   WithoutLimLoc(other) = WithoutLimLoc(input) => convert_element(other) = output

\* C26 happens: a sum with both limits in the over/under mode was emitted with
\* plain sub- and superscript, as in the other mode.
C26_Witness ==
    /\ op = "convert_element"
    /\ input.tag = "nary"
    /\ get_val(get_element(get_element(input, "naryPr"), "limLoc"), <<>>) = <<"u", "n", "d", "O", "v", "r">>
    /\ output = <<"\\", "s", "u", "m">> \o <<"_", "{", "i", "}", "^", "{", "n", "}", " ", "x">>

\* The name text of a function node: the literal texts of the runs under
\* fName, run after run, without surrounding whitespace.
NameText(elem) ==
    IF \E i \in 1..Len(elem.kids) : elem.kids[i].tag = "fName"
    THEN LET runs == get_element(elem, "fName").kids
         IN  strip(join([i \in 1..Len(runs) |-> get_text(runs[i])]))
    ELSE <<>>

\* C27: Function node.  If the name text is a recognized function name (a
\* name of the fixed set in any letter case, in one run or split over several
\* runs) the node emits get_function_latex of the name, one space and the
\* argument; otherwise the transpiled name, one space and the argument.
C27_FunctionNode ==
    (op = "convert_element" /\ input.tag = "func") =>
        IF Recognized(NameText(input))
        THEN output = get_function_latex(NameText(input)) \o <<" ">> \o slot_latex(input, "e")
        ELSE output = slot_latex(input, "fName") \o <<" ">> \o slot_latex(input, "e")

\* s without the wrappers: every occurrence of prefix and the brace that
\* closes the group it opens are removed, what they enclose is kept.
RECURSIVE Unwrapped(_, _)
Unwrapped(s, prefix) ==
    IF s = <<>> THEN <<>>
    ELSE IF StartsWith(s, prefix)
         THEN LET rest == SubSeq(s, Len(prefix) + 1, Len(s))
                  close == GroupClose(rest, 1, 1)
              IN  IF close = 0 THEN rest
                  ELSE SubSeq(rest, 1, close - 1) \o Unwrapped(SubSeq(rest, close + 1, Len(rest)), prefix)
         ELSE <<Head(s)>> \o Unwrapped(Tail(s), prefix)

\* s without its spaces.
Unspaced(s) == SelectSeq(s, LAMBDA c : c # " ")

\* C28: Styled and unstyled runs agree on symbol mapping.  Removing the
\* wrappers and the spaces from apply_style_smartly(text, prefix, suffix)
\* gives map_text(text) without its spaces: every character is emitted as its
\* Symbol Table mapping whether or not it falls inside a wrapped span.
C28_StyledAgreesWithPlain ==
    op = "apply_style_smartly" =>
        Unspaced(Unwrapped(output, input.prefix)) = Unspaced(map_text(input.text))

\* C29: Cleanup is idempotent and complete.  For every string the transpiler
\* produces, cleaning the cleaned string changes nothing, and the cleaned
\* string holds no empty brace group, also when the transpiled string holds a
\* group of white space only.
C29_CleanupIdempotentComplete ==
    op = "do_convert" =>
        /\ clean_latex(output.latex) = output.latex
        /\ ~Contains(output.latex, <<"{", "}">>)

\* C30: Generic fallback.  A node whose kind has no handler, and the Root
\* node, produce the Spacing-Policy join of the fragments of all their
\* children in document order, the children that transpile to the empty
\* string dropped before the join; no child is skipped, duplicated or
\* reordered.
C30_GenericFallback ==
    (op = "convert_element" /\ input.tag \notin (HandledTags \ {"oMath"})) =>
        output = SpacedConcat(SiblingFragments(input.kids))

\* C30 happens: a node of an unknown kind joined alpha and b across an empty
\* run between them, with the space the Spacing Policy puts between the two.
C30_Witness ==
    /\ op = "convert_element"
    /\ input = Elem("zz", <<Run(<<"U+03B1">>), Run(<<>>), Run(<<"b">>)>>)
    /\ output = <<"\\", "a", "l", "p", "h", "a", " ", "b">>
====
